---- MODULE Spec2Model ----
(***************************************************************************)
(* PIXEstL: palette combinatorics, quantization and the colour pipeline    *)
(* of the lithophane generator, as state machines over bounded inputs.     *)
(*                                                                         *)
(* Strings that the code compares, sorts or parses (hex codes, layer keys) *)
(* are sequences of character codes, so that equality is case sensitive,   *)
(* sorting is bytewise and parsing reads digits.  f64 colour components    *)
(* are exact integers in percent (CMYK, S, L), degrees (H) or 0..255       *)
(* (RGB); the inputs are chosen so that the f64 arithmetic of the code is  *)
(* exact on them (multiples of 1/4 and hues that are multiples of 60).     *)
(***************************************************************************)
EXTENDS Integers, Sequences, FiniteSets, TLC

VARIABLES
    pc,               \* position of the run: which operation has completed
    palette_data,     \* loader.rs: HashMap<String, PaletteColorEntry> read from JSON
    config,           \* loader.rs: PaletteLoaderConfig
    iter_order,       \* iteration order of the palette_data HashMap (RandomState)
    key_order,        \* iteration order of each entry's layers HashMap
    palette,          \* mod.rs: Palette built by PaletteLoader::load
    load_status,      \* outcome of load: "none" | "ok" | error kind | panic kind
    color_layers,     \* generator.rs: create_multi_combi argument
    restrict_colors,  \* generator.rs: create_multi_combi argument (Option)
    nb_layers_target, \* generator.rs: create_multi_combi argument
    combis,           \* generator.rs: create_multi_combi result
    image,            \* generator.rs: resized RGBA colour image (rows of pixels)
    palette_colors,   \* Palette::colors(): keys of quantized_colors in map order
    distance_method,  \* config.color_distance_method
    quantized,        \* quantize_pixels / quantize_image result
    quantized_image,  \* generate: pixels_to_image(quantized), before the flip
    color_image,      \* generate: quantized, re-imaged and flipped colour grid
    clip,             \* color_layer.rs: arguments of apply_layer_offset
    clipped,          \* color_layer.rs: (adjusted_height, adjusted_before)
    layer_args,       \* color_layer.rs: hex_codes, layer_offset, layer_max of generate_color_layer
    cube_args,        \* geometry.rs: width, depth, height, center of Mesh::cube
    mesh,             \* geometry.rs: Mesh returned, its triangles in order
    lithophane_config,\* config.rs: LithophaneConfig of the generator
    source_dimensions,\* generator.rs: (image.width(), image.height()) of the source image
    generated_layers, \* generator.rs: layers, the Vec<(String, Mesh)> returned by generate
    stl_name,         \* stl/mod.rs: name argument of write_stl
    stl_output,       \* stl/mod.rs: the bytes write_stl has written to the writer
    archive,          \* stl/mod.rs: outcome of export_to_zip, the entries of the ZIP file
    combi_self,       \* color_combi.rs: the ColorCombi a method is called on
    combi_arg,        \* color_combi.rs: nb_color_pool of optimize_white_layers
    combi_out,        \* color_combi.rs: the ColorCombi the method returns
    row_meshes        \* color_layer.rs / texture_layer.rs: the row tasks' results, by row

vars == <<pc, palette_data, config, iter_order, key_order, palette, load_status,
          color_layers, restrict_colors, nb_layers_target, combis,
          image, palette_colors, distance_method, quantized, quantized_image, color_image,
          clip, clipped, layer_args, cube_args, mesh,
          lithophane_config, source_dimensions, generated_layers,
          stl_name, stl_output, archive, combi_self, combi_arg, combi_out, row_meshes>>

loaderVars == <<palette_data, config, iter_order, key_order, palette, load_status>>
generatorVars == <<color_layers, restrict_colors, nb_layers_target, combis>>
imageVars == <<image, palette_colors, distance_method, quantized, quantized_image, color_image>>
clipVars == <<clip, clipped>>
meshVars == <<layer_args, cube_args, mesh>>
generateVars == <<lithophane_config, source_dimensions, generated_layers>>
lithophaneVars == <<clipVars, meshVars, generateVars>>
exportVars == <<stl_name, stl_output, archive>>
combiVars == <<combi_self, combi_arg, combi_out>>
rowVars == <<row_meshes>>

\* ------------------------------------------------------------------ bounds

\* largest nb_layers (per-group height budget) explored
MaxNbLayers == 3
\* largest color_number (slot quota + 1) explored
MaxColorNumber == 3
\* longest layer list handed to create_multi_combi on its own
MaxGenLayers == 3
\* largest number of pixels (width * height) of an image explored
MaxPixels == 4

\* ------------------------------------------------------------------ helpers

\* Option<T>: None is the empty sequence, Some(x) is <<x>>
None == <<>>
Some(x) == <<x>>
IsSome(o) == o # <<>>
Unwrap(o) == o[1]

Max2(a, b) == IF a >= b THEN a ELSE b
Min2(a, b) == IF a <= b THEN a ELSE b
Abs(a) == IF a < 0 THEN -a ELSE a

RECURSIVE Concat(_)
\* flattens a sequence of sequences (Vec::extend in a loop)
Concat(ss) == IF ss = <<>> THEN <<>> ELSE Head(ss) \o Concat(Tail(ss))

\* every sequence over S without repetition, of length 1..n
DistinctSeqs(S, n) ==
    UNION { { s \in [1..k -> S] : \A i, j \in 1..k : i # j => s[i] # s[j] } : k \in 1..n }

\* every ordering of the finite set S (the orders a HashMap may iterate in)
Orderings(S) ==
    { s \in [1..Cardinality(S) -> S] : \A i, j \in 1..Cardinality(S) : i # j => s[i] # s[j] }

\* slice::contains
Contains(seq, x) == \E i \in 1..Len(seq) : seq[i] = x

\* ------------------------------------------------------------------ strings

\* "#FFFFFF", "#FF0000", "#00FF00", "#0000FF" as character codes
WHITE == <<35, 70, 70, 70, 70, 70, 70>>
RED == <<35, 70, 70, 48, 48, 48, 48>>
GREEN == <<35, 48, 48, 70, 70, 48, 48>>
BLUE == <<35, 48, 48, 48, 48, 70, 70>>

RECURSIVE StrLess(_, _)
\* Ord for String: bytewise lexicographic, as used by Vec<String>::sort
StrLess(a, b) ==
    IF b = <<>> THEN FALSE
    ELSE IF a = <<>> THEN TRUE
    ELSE IF Head(a) # Head(b) THEN Head(a) < Head(b)
    ELSE StrLess(Tail(a), Tail(b))

RECURSIVE SortStrings(_)
\* the sorted Vec of a set of distinct strings
SortStrings(S) ==
    IF S = {} THEN <<>>
    ELSE LET m == CHOOSE x \in S : \A y \in S \ {x} : StrLess(x, y)
         IN  <<m>> \o SortStrings(S \ {m})

\* value of one hex digit, -1 when the character is no hex digit
HexDigit(c) ==
    IF c \in 48..57 THEN c - 48
    ELSE IF c \in 65..70 THEN c - 55
    ELSE IF c \in 97..102 THEN c - 87
    ELSE -1

\* Rgb::from_hex: [ok, rgb]; digits are accepted in either case
from_hex(hex) ==
    IF Len(hex) # 7 \/ hex[1] # 35 \/ \E i \in 2..7 : HexDigit(hex[i]) < 0
    THEN [ok |-> FALSE, rgb |-> <<0, 0, 0>>]
    ELSE [ok |-> TRUE,
          rgb |-> << 16 * HexDigit(hex[2]) + HexDigit(hex[3]),
                     16 * HexDigit(hex[4]) + HexDigit(hex[5]),
                     16 * HexDigit(hex[6]) + HexDigit(hex[7]) >>]

RECURSIVE DigitsValue(_, _)
DigitsValue(s, acc) ==
    IF s = <<>> THEN acc ELSE DigitsValue(Tail(s), 10 * acc + (Head(s) - 48))

\* str::parse::<u32>: decimal digits with an optional leading '+'; -1 is Err
parse_u32(s) ==
    LET body == IF s # <<>> /\ Head(s) = 43 THEN Tail(s) ELSE s
    IN  IF body = <<>> \/ \E i \in 1..Len(body) : body[i] \notin 48..57
        THEN -1
        ELSE DigitsValue(body, 0)

\* ------------------------------------------------------------------ colour kernel

\* f64::round of n/d for n >= 0, d > 0 (half away from zero)
RoundDiv(n, d) == (2 * n + d) \div (2 * d)

\* hsl.rs hue_to_rgb with p, q scaled by 10000 and t in degrees (t * 360)
hue_to_rgb(p, q, t0) ==
    LET t1 == IF t0 < 0 THEN t0 + 360 ELSE t0
        t == IF t1 > 360 THEN t1 - 360 ELSE t1
    IN  IF t < 60 THEN p + ((q - p) * t) \div 60
        ELSE IF t < 180 THEN q
        ELSE IF t < 240 THEN p + ((q - p) * (240 - t)) \div 60
        ELSE p

\* Hsl::to_cmyk: hsl = <<h, s, l>> (degrees, percent, percent) to <<c, m, y, k>> in percent
hsl_to_cmyk(hsl) ==
    LET h == hsl[1]
        s == hsl[2]
        l == hsl[3]
    IN  IF s = 0 THEN <<0, 0, 0, 100 - l>>
        ELSE LET q == IF l < 50 THEN l * (100 + s) ELSE 100 * l + 100 * s - l * s
                 p == 200 * l - q
                 r == hue_to_rgb(p, q, h + 120)
                 g == hue_to_rgb(p, q, h)
                 b == hue_to_rgb(p, q, h - 120)
                 k == 10000 - Max2(Max2(r, g), b)
             IN  IF k < 10000
                 THEN << ((10000 - r - k) * 100) \div (10000 - k),
                         ((10000 - g - k) * 100) \div (10000 - k),
                         ((10000 - b - k) * 100) \div (10000 - k),
                         k \div 100 >>
                 ELSE <<0, 0, 0, k \div 100>>

\* impl From<Rgb> for Hsl: rgb channels 0..255 to <<h, s, l>>
rgb_to_hsl(rgb) ==
    LET max == Max2(Max2(rgb[1], rgb[2]), rgb[3])
        min == Min2(Min2(rgb[1], rgb[2]), rgb[3])
        l == (100 * (max + min)) \div 510
        s == IF max = min THEN 0
             ELSE (100 * (max - min)) \div (255 - Abs(max + min - 255))
        h == IF max = min THEN 0
             ELSE IF max = rgb[1]
                  THEN ((60 * (rgb[2] - rgb[3])) \div (max - min) + 360) % 360
             ELSE IF max = rgb[2]
                  THEN (60 * (rgb[3] - rgb[1])) \div (max - min) + 120
             ELSE (60 * (rgb[1] - rgb[2])) \div (max - min) + 240
    IN  <<h, s, l>>

\* Rgb::from_cmyk (with Rgb::from_f64): cmyk in percent to channels 0..255
from_cmyk(cmyk) ==
    LET c == Max2(0, Min2(100, cmyk[1]))
        m == Max2(0, Min2(100, cmyk[2]))
        y == Max2(0, Min2(100, cmyk[3]))
        k == Max2(0, Min2(100, cmyk[4]))
    IN  << RoundDiv(255 * (100 - c) * (100 - k), 10000),
           RoundDiv(255 * (100 - m) * (100 - k), 10000),
           RoundDiv(255 * (100 - y) * (100 - k), 10000) >>

\* ------------------------------------------------------------------ ColorLayer

\* ColorLayer::new
ColorLayer(hex_code, layer, hsl) ==
    [hex_code |-> hex_code, layer |-> layer, cmyk |-> hsl_to_cmyk(hsl)]

\* ColorLayer::compare_by_k(a, b) = Less: a sorts before b (K descending)
compare_by_k_less(a, b) == b.cmyk[4] < a.cmyk[4]

RECURSIVE InsertByK(_, _)
InsertByK(sorted, x) ==
    IF sorted = <<>> THEN <<x>>
    ELSE IF compare_by_k_less(x, sorted[Len(sorted)])
         THEN InsertByK(SubSeq(sorted, 1, Len(sorted) - 1), x) \o <<sorted[Len(sorted)]>>
         ELSE sorted \o <<x>>

RECURSIVE sort_by_k(_)
\* Vec::sort_by(compare_by_k): stable, so equal K keeps the incoming order
sort_by_k(layers) ==
    IF layers = <<>> THEN <<>>
    ELSE InsertByK(sort_by_k(SubSeq(layers, 1, Len(layers) - 1)), layers[Len(layers)])

\* the two assert_eq! of ColorLayer::combine_with
combine_with_asserts(a, b) == a.hex_code = b.hex_code /\ a.cmyk = b.cmyk

\* combine_with keeping the first layer's count
combine_with_keeps_count(a, b) ==
    [hex_code |-> a.hex_code, layer |-> a.layer, cmyk |-> a.cmyk]

\* ColorLayer::combine_with
combine_with(a, b) ==
    [hex_code |-> a.hex_code, layer |-> a.layer + b.layer, cmyk |-> a.cmyk]

\* ------------------------------------------------------------------ ColorCombi
\* a ColorCombi is its Vec<ColorLayer>

\* ColorCombi::new
ColorCombi(layer) == sort_by_k(<<layer>>)

RECURSIVE total_layers(_)
\* ColorCombi::total_layers
total_layers(combi) ==
    IF combi = <<>> THEN 0 ELSE Head(combi).layer + total_layers(Tail(combi))

\* ColorCombi::total_colors
total_colors(combi) == Len(combi)

\* combine_with_layer without the test for a hex code already in the combi
combine_with_layer_any_hex(combi, layer, nb_layer_max) ==
    IF total_layers(combi) + layer.layer > nb_layer_max THEN None
    ELSE Some(Append(combi, layer))

\* combine_with_layer refusing a layer that fills the combi exactly
combine_with_layer_below_max(combi, layer, nb_layer_max) ==
    IF \E i \in 1..Len(combi) : combi[i].hex_code = layer.hex_code THEN None
    ELSE IF total_layers(combi) + layer.layer >= nb_layer_max THEN None
    ELSE Some(Append(combi, layer))

\* ColorCombi::combine_with_layer: None or the extended combi
combine_with_layer(combi, layer, nb_layer_max) ==
    IF \E i \in 1..Len(combi) : combi[i].hex_code = layer.hex_code THEN None
    ELSE IF total_layers(combi) + layer.layer > nb_layer_max THEN None
    ELSE Some(Append(combi, layer))

\* ColorCombi::combine_with_combi
combine_with_combi(combi, other) == combi \o other

RECURSIVE SumComponent(_, _)
SumComponent(combi, n) ==
    IF combi = <<>> THEN 0 ELSE Head(combi).cmyk[n] + SumComponent(Tail(combi), n)

\* ColorCombi::compute_rgb
compute_rgb(combi) ==
    from_cmyk(<< Min2(SumComponent(combi, 1), 100), Min2(SumComponent(combi, 2), 100),
                 Min2(SumComponent(combi, 3), 100), Min2(SumComponent(combi, 4), 100) >>)

RECURSIVE FactorizeFrom(_, _)
\* the loop of ColorCombi::factorize over the remaining layers: [panic, layers],
\* panic when a combine_with assertion fails
FactorizeFrom(new_layers, rest) ==
    IF rest = <<>> THEN [panic |-> FALSE, layers |-> new_layers]
    ELSE IF new_layers = <<>> THEN FactorizeFrom(<<Head(rest)>>, Tail(rest))
    ELSE LET last_idx == Len(new_layers)
             last_layer == new_layers[last_idx]
         IN  IF last_layer.hex_code = Head(rest).hex_code
             THEN IF combine_with_asserts(last_layer, Head(rest))
                  THEN FactorizeFrom(
                         [new_layers EXCEPT ![last_idx] = combine_with(last_layer, Head(rest))],
                         Tail(rest))
                  ELSE [panic |-> TRUE, layers |-> <<>>]
             ELSE FactorizeFrom(Append(new_layers, Head(rest)), Tail(rest))

\* ColorCombi::factorize: [panic, layers]
factorize(combi) ==
    IF combi = <<>> THEN [panic |-> FALSE, layers |-> combi] ELSE FactorizeFrom(<<>>, combi)

RECURSIVE WhiteBuckets(_, _, _)
\* the loop of ColorCombi::optimize_white_layers: <<bottom_white, middle_colored, top_white>>
WhiteBuckets(rest, layer_count, nb_color_pool) ==
    IF rest = <<>> THEN << <<>>, <<>>, <<>> >>
    ELSE LET layer == Head(rest)
             more == WhiteBuckets(Tail(rest), layer_count + layer.layer, nb_color_pool)
         IN  IF layer.hex_code = WHITE
             THEN IF layer_count <= nb_color_pool
                  THEN << <<layer>> \o more[1], more[2], more[3] >>
                  ELSE << more[1], more[2], <<layer>> \o more[3] >>
             ELSE << more[1], <<layer>> \o more[2], more[3] >>

\* optimize_white_layers with every white layer put below the coloured layers
optimize_white_layers_white_first(combi, nb_color_pool) ==
    LET b == WhiteBuckets(combi, 0, nb_color_pool) IN b[1] \o b[3] \o b[2]

\* ColorCombi::optimize_white_layers
optimize_white_layers(combi, nb_color_pool) ==
    LET b == WhiteBuckets(combi, 0, nb_color_pool) IN b[1] \o b[2] \o b[3]

\* ------------------------------------------------------------------ generator.rs

\* the restriction test shared by both loops: restrict is an Option<&[String]>
Admissible(restrict, layer) == ~IsSome(restrict) \/ Contains(Unwrap(restrict), layer.hex_code)

RECURSIVE compute_combination_from(_, _, _, _, _)
\* compute_combination's for loop from (1-based) index i on; the recursive call
\* restarts the loop at the first layer
compute_combination_from(restrict, current_combi, layers, nb_layers_max, i) ==
    IF i > Len(layers) THEN <<>>
    ELSE LET color_layer == layers[i]
             rest == compute_combination_from(restrict, current_combi, layers, nb_layers_max, i + 1)
         IN  IF ~Admissible(restrict, color_layer) THEN rest
             ELSE IF total_layers(current_combi) + color_layer.layer > nb_layers_max THEN rest
             ELSE IF total_colors(current_combi) >= Len(layers) THEN <<>>
             ELSE LET combined == combine_with_layer(current_combi, color_layer, nb_layers_max)
                      new_combi == Unwrap(combined)
                  IN  IF ~IsSome(combined) THEN rest
                      ELSE (IF total_layers(new_combi) = nb_layers_max
                            THEN <<new_combi>> ELSE <<>>)
                           \o (IF i < Len(layers)
                               THEN compute_combination_from(restrict, new_combi, layers,
                                                             nb_layers_max, 1)
                               ELSE <<>>)
                           \o rest

\* generator.rs compute_combination
compute_combination(restrict, current_combi, layers, nb_layers_max) ==
    compute_combination_from(restrict, current_combi, layers, nb_layers_max, 1)

\* create_multi_combi's for loop body for the layer at (1-based) index i
BaseCombis(restrict, layers, nb_layers_target_, i) ==
    IF ~Admissible(restrict, layers[i]) THEN <<>>
    ELSE LET base_combi == ColorCombi(layers[i])
         IN  <<base_combi>>
             \o (IF i < Len(layers)
                 THEN compute_combination(restrict, base_combi, layers, nb_layers_target_)
                 ELSE <<>>)

\* generator.rs create_multi_combi
create_multi_combi(restrict, layers, nb_layers_target_) ==
    SelectSeq(Concat([i \in 1..Len(layers) |-> BaseCombis(restrict, layers, nb_layers_target_, i)]),
              LAMBDA c : total_layers(c) = nb_layers_target_)

\* ------------------------------------------------------------------ Palette (mod.rs)

\* HashMap::new()
EmptyMap == [x \in {} |-> x]

\* an insert that keeps the value already stored under the key
MapInsertFirstWins(m, k, v) == m @@ (k :> v)

\* HashMap::insert: a later insert under the same key replaces the value
MapInsert(m, k, v) == (k :> v) @@ m

\* Palette::new
PaletteNew(nb_layers) ==
    [quantized_colors |-> EmptyMap, hex_codes_map |-> EmptyMap, nb_layers |-> nb_layers,
     nb_groups |-> 0, layer_count |-> 0, hex_color_group_list |-> <<>>]

\* Palette::add_combi
add_combi(pal, combi) ==
    [pal EXCEPT !.quantized_colors = MapInsert(@, compute_rgb(combi), combi)]

\* Palette::set_nb_groups
set_nb_groups(pal, nb_groups) ==
    [pal EXCEPT !.nb_groups = nb_groups, !.layer_count = pal.nb_layers * nb_groups]

\* Palette::optimize_white_layers
palette_optimize_white_layers(pal, nb_color_pool) ==
    [pal EXCEPT !.quantized_colors =
        [k \in DOMAIN @ |-> optimize_white_layers(@[k], nb_color_pool)]]

\* ------------------------------------------------------------------ loader.rs

\* create_color_layers, one palette entry in Additive mode: the (hex, key) pairs
\* its layers map yields, in that map's iteration order
AdditiveItems(data, korder, hex) ==
    IF IsSome(data[hex].layers)
    THEN [n \in 1..Len(korder[hex]) |-> <<hex, korder[hex][n]>>]
    ELSE <<>>

\* create_color_layers: what the two nested loops visit, in order
LayerItems(data, cfg, order, korder) ==
    Concat([n \in 1..Len(order) |->
              IF ~data[order[n]].active THEN <<>>
              ELSE IF cfg.creation_method = "Additive"
                   THEN AdditiveItems(data, korder, order[n])
                   ELSE << <<order[n], <<>>>> >>])

\* create_color_layers, Additive branch for one (hex, key): [err, layer]
AdditiveLayer(data, hex, layer_key) ==
    LET layer_num == parse_u32(layer_key)
        layer_def == Unwrap(data[hex].layers)[layer_key]
        parsed == from_hex(layer_def.hexcode)
    IN  IF layer_num < 0 THEN [err |-> "InvalidPalette", layer |-> <<>>]
        ELSE IF layer_def.kind = "Hsl"
             THEN [err |-> "none", layer |-> ColorLayer(hex, layer_num, layer_def.hsl)]
        ELSE IF ~parsed.ok THEN [err |-> "InvalidHexCode", layer |-> <<>>]
        ELSE [err |-> "none", layer |-> ColorLayer(hex, layer_num, rgb_to_hsl(parsed.rgb))]

\* create_color_layers, Full branch for one entry: [err, layer]
FullLayer(cfg, hex) ==
    LET parsed == from_hex(hex)
    IN  IF ~parsed.ok THEN [err |-> "InvalidHexCode", layer |-> <<>>]
        ELSE [err |-> "none", layer |-> ColorLayer(hex, cfg.nb_layers, rgb_to_hsl(parsed.rgb))]

\* PaletteLoader::create_color_layers: [err, layers]; the first failing item
\* in iteration order returns its error
create_color_layers(data, cfg, order, korder) ==
    LET items == LayerItems(data, cfg, order, korder)
        made == [n \in 1..Len(items) |->
                   IF cfg.creation_method = "Additive"
                   THEN AdditiveLayer(data, items[n][1], items[n][2])
                   ELSE FullLayer(cfg, items[n][1])]
        bad == { n \in 1..Len(items) : made[n].err # "none" }
        first == CHOOSE n \in bad : \A m \in bad : n <= m
    IN  IF bad # {}
        THEN [err |-> made[first].err, layers |-> <<>>]
        ELSE [err |-> "none", layers |-> sort_by_k([n \in 1..Len(items) |-> made[n].layer])]

\* compute_colors_by_group: nb_color_pool
NbColorPool(cfg, working_hex_list) ==
    IF cfg.creation_method = "Additive" /\ cfg.color_number > 0
    THEN Max2(cfg.color_number - 1, 0)
    ELSE Len(working_hex_list)

\* nb_groups with a truncating division
NbGroupsFloor(nb_color_pool, working_hex_list) ==
    IF nb_color_pool > 0
    THEN Len(working_hex_list) \div nb_color_pool
    ELSE 1

\* compute_colors_by_group: nb_groups (usize::div_ceil)
NbGroups(nb_color_pool, working_hex_list) ==
    IF nb_color_pool > 0
    THEN (Len(working_hex_list) + nb_color_pool - 1) \div nb_color_pool
    ELSE 1

\* compute_colors_by_group: hex_color_groups, white appended to each group;
\* only evaluated when nb_color_pool > 0 or the working list is empty
HexColorGroups(working_hex_list, nb_color_pool, nb_groups) ==
    [g \in 1..nb_groups |->
        SelectSeq(working_hex_list,
                  LAMBDA h : \E i \in 1..Len(working_hex_list) :
                                 /\ working_hex_list[i] = h
                                 /\ (i - 1) \div nb_color_pool = g - 1)
        \o <<WHITE>>]

\* the pairwise product of one step of "Combine groups progressively"
CrossCombine(list_i, list_i1) ==
    Concat([a \in 1..Len(list_i) |->
              [b \in 1..Len(list_i1) |-> combine_with_combi(list_i[a], list_i1[b])]])

RECURSIVE FinalCombiList(_, _, _)
\* temp_color_combi_list.last(): the product of the groups' lists from group i on
FinalCombiList(acc, color_combi_list_list, i) ==
    IF i > Len(color_combi_list_list) THEN acc
    ELSE FinalCombiList(CrossCombine(acc, color_combi_list_list[i]),
                        color_combi_list_list, i + 1)

RECURSIVE AddAll(_, _)
\* the loop "factorize and add all combinations" (no factorize panics)
AddAll(pal, combi_list) ==
    IF combi_list = <<>> THEN pal
    ELSE AddAll(add_combi(pal, factorize(Head(combi_list)).layers), Tail(combi_list))

\* PaletteLoader::init_hex_color_group_list: the slot list
init_hex_color_group_list(hex_color_groups, nb_color_pool) ==
    [i \in 1..nb_color_pool |->
        LET having == SelectSeq(hex_color_groups,
                        LAMBDA group : Len(SelectSeq(group, LAMBDA h : h # WHITE)) >= i)
        IN  [g \in 1..Len(having) |-> SelectSeq(having[g], LAMBDA h : h # WHITE)[i]]]
    \o << <<WHITE>> >>

\* PaletteLoader::compute_colors_by_group: [status, palette]
compute_colors_by_group(pal, layers, hex_color_list, cfg) ==
    LET working_hex_list == SelectSeq(hex_color_list, LAMBDA h : h # WHITE)
        nb_color_pool == NbColorPool(cfg, working_hex_list)
        nb_groups == NbGroups(nb_color_pool, working_hex_list)
        hex_color_groups == HexColorGroups(working_hex_list, nb_color_pool, nb_groups)
        color_combi_list_list ==
            [g \in 1..nb_groups |->
                create_multi_combi(Some(hex_color_groups[g]), layers, cfg.nb_layers)]
        final_combi_list ==
            FinalCombiList(color_combi_list_list[1], color_combi_list_list, 2)
        grouped == set_nb_groups(pal, nb_groups)
        added == AddAll(grouped, final_combi_list)
        optimized == palette_optimize_white_layers(added, nb_color_pool)
    IN  IF nb_color_pool = 0 /\ working_hex_list # <<>>
        THEN [status |-> "panic_divide_by_zero", palette |-> <<>>]
        ELSE IF nb_groups = 0
        THEN [status |-> "panic_index_out_of_bounds", palette |-> <<>>]
        ELSE IF \E n \in 1..Len(final_combi_list) : factorize(final_combi_list[n]).panic
        THEN [status |-> "panic_assertion_failed", palette |-> <<>>]
        ELSE [status |-> "ok",
              palette |-> [optimized EXCEPT !.hex_color_group_list =
                              init_hex_color_group_list(hex_color_groups, nb_color_pool)]]

\* load: hex_color_list, the sorted active hex codes that have layers
HexColorList(data) ==
    SortStrings({ hex \in DOMAIN data : data[hex].active /\ IsSome(data[hex].layers) })

\* load with the colour layers created before the white test
load_layers_first(data, cfg, order, korder) ==
    LET pal == [PaletteNew(cfg.nb_layers) EXCEPT
                  !.hex_codes_map = [hex \in DOMAIN data |-> data[hex].name]]
        hex_color_list == HexColorList(data)
        made == create_color_layers(data, cfg, order, korder)
    IN  IF made.err # "none"
        THEN [status |-> made.err, palette |-> <<>>]
        ELSE IF cfg.creation_method = "Additive" /\ ~Contains(hex_color_list, WHITE)
        THEN [status |-> "InvalidPalette", palette |-> <<>>]
        ELSE compute_colors_by_group(pal, made.layers, hex_color_list, cfg)

\* PaletteLoader::load after the JSON is parsed: [status, palette]
load(data, cfg, order, korder) ==
    LET pal == [PaletteNew(cfg.nb_layers) EXCEPT
                  !.hex_codes_map = [hex \in DOMAIN data |-> data[hex].name]]
        hex_color_list == HexColorList(data)
        made == create_color_layers(data, cfg, order, korder)
    IN  IF cfg.creation_method = "Additive" /\ ~Contains(hex_color_list, WHITE)
        THEN [status |-> "InvalidPalette", palette |-> <<>>]
        ELSE IF made.err # "none"
        THEN [status |-> made.err, palette |-> <<>>]
        ELSE compute_colors_by_group(pal, made.layers, hex_color_list, cfg)

\* ------------------------------------------------------------------ idle values

\* the value of the loader's variables in runs that do not load a palette
LoaderIdle ==
    /\ palette_data = <<>>
    /\ config = <<>>
    /\ iter_order = <<>>
    /\ key_order = <<>>
    /\ palette = <<>>
    /\ load_status = "none"

\* the value of the generator's variables in runs that do not call it on its own
GeneratorIdle ==
    /\ color_layers = <<>>
    /\ restrict_colors = None
    /\ nb_layers_target = 0
    /\ combis = <<>>

\* the value of the image variables in runs that do not process an image
ImageIdle ==
    /\ image = <<>>
    /\ palette_colors = <<>>
    /\ distance_method = "none"
    /\ quantized = <<>>
    /\ quantized_image = <<>>
    /\ color_image = <<>>

\* the value of the window variables in runs that clip no layer on its own
ClipIdle ==
    /\ clip = <<>>
    /\ clipped = <<>>

\* the value of the mesh variables in runs that build no single mesh
MeshIdle ==
    /\ layer_args = <<>>
    /\ cube_args = <<>>
    /\ mesh = <<>>

\* the value of the orchestrator's variables in runs that do not call generate
GenerateIdle ==
    /\ lithophane_config = <<>>
    /\ source_dimensions = <<>>
    /\ generated_layers = <<>>

\* runs that build no mesh at all
LithophaneIdle == ClipIdle /\ MeshIdle /\ GenerateIdle

\* the value of the export variables in runs that write no file
ExportIdle ==
    /\ stl_name = <<>>
    /\ stl_output = <<>>
    /\ archive = <<>>

\* the value of the combi variables in runs that call no ColorCombi method on its own
CombiIdle ==
    /\ combi_self = <<>>
    /\ combi_arg = 0
    /\ combi_out = <<>>

\* the value of the row results in runs that do not follow the row tasks one by one
RowIdle == row_meshes = <<>>

\* ------------------------------------------------------------------ palette files explored

\* layer keys "1" and "2"
Key1 == <<49>>
Key2 == <<50>>

HslDef(h, s, l) == [kind |-> "Hsl", hsl |-> <<h, s, l>>]
HexcodeDef(hex) == [kind |-> "Hexcode", hexcode |-> hex]

\* a layers object with one key / with keys "1" and "2"
Layers1(k, d) == Some([x \in {k} |-> d])
Layers12(d1, d2) == Some([x \in {Key1, Key2} |-> IF x = Key1 THEN d1 ELSE d2])

Entry(name, active, layers) == [name |-> name, active |-> active, layers |-> layers]

\* the entries explored per hex code
EntryChoices(hex) ==
    IF hex = WHITE THEN
        { Entry("White", TRUE, Layers1(Key1, HslDef(0, 0, 100))),
          Entry("White", TRUE, Layers12(HslDef(0, 0, 100), HslDef(0, 0, 100))),
          Entry("White", TRUE, Layers12(HslDef(0, 0, 100), HslDef(0, 0, 75))) }
    ELSE IF hex = RED THEN
        { Entry("Red", FALSE, Layers1(Key1, HslDef(0, 100, 50))),
          Entry("Red", TRUE, None),
          Entry("Red", TRUE, Layers1(Key1, HslDef(0, 100, 50))),
          Entry("Red", TRUE, Layers12(HslDef(0, 100, 50), HslDef(0, 100, 50))) }
    ELSE IF hex = GREEN THEN
        { Entry("Green", TRUE, Layers1(Key1, HslDef(120, 100, 50))),
          Entry("Green", TRUE, Layers1(Key2, HslDef(120, 100, 25))),
          Entry("Green", TRUE, Layers1(Key1, HexcodeDef(BLUE))) }
    ELSE
        { Entry("Blue", TRUE, Layers1(Key1, HexcodeDef(BLUE))) }

HexCodes == {WHITE, RED, GREEN}

RECURSIVE FilesOver(_)
\* every parsed HashMap with an explored entry, or none, under each of the hex codes
FilesOver(hexes) ==
    IF hexes = {} THEN {EmptyMap}
    ELSE LET h == CHOOSE x \in hexes : TRUE
             rest == FilesOver(hexes \ {h})
         IN  rest \cup { MapInsert(f, h, e) : f \in rest, e \in EntryChoices(h) }

\* files with three filaments next to white, each with a layer of one unit
FourFilamentFiles ==
    { (WHITE :> w) @@ (RED :> Entry("Red", TRUE, Layers1(Key1, HslDef(0, 100, 50))))
      @@ (GREEN :> Entry("Green", TRUE, Layers1(Key1, HslDef(120, 100, 50))))
      @@ (BLUE :> b) :
        b \in EntryChoices(BLUE),
        w \in { Entry("White", TRUE, Layers1(Key1, HslDef(0, 0, 100))),
                Entry("White", TRUE, Layers12(HslDef(0, 0, 100), HslDef(0, 0, 100))) } }

\* the palette files explored
PaletteFiles == FilesOver(HexCodes) \cup FourFilamentFiles

\* the loader configs explored; color_number is read in Additive mode only, so
\* Full mode is explored with the default 0
Configs ==
    { c \in [nb_layers : 1..MaxNbLayers, creation_method : {"Additive", "Full"},
             color_number : 0..MaxColorNumber] :
        c.creation_method = "Full" => c.color_number = 0 }

\* the keys of an entry's layers map
LayerKeys(entry) == IF IsSome(entry.layers) THEN DOMAIN Unwrap(entry.layers) ELSE {}

RECURSIVE KeyOrdersOver(_, _)
\* every assignment of an iteration order to the layers maps of the entries
KeyOrdersOver(data, hexes) ==
    IF hexes = {} THEN {EmptyMap}
    ELSE LET h == CHOOSE x \in hexes : TRUE
         IN  { MapInsert(f, h, o) : f \in KeyOrdersOver(data, hexes \ {h}),
                                    o \in Orderings(LayerKeys(data[h])) }

\* ------------------------------------------------------------------ PaletteLoader::load

Init ==
    /\ pc = "start"
    /\ palette_data \in PaletteFiles
    /\ config \in Configs
    /\ iter_order \in Orderings(DOMAIN palette_data)
    /\ key_order \in KeyOrdersOver(palette_data, DOMAIN palette_data)
    /\ palette = <<>>
    /\ load_status = "none"
    /\ GeneratorIdle
    /\ ImageIdle
    /\ LithophaneIdle
    /\ ExportIdle
    /\ CombiIdle
    /\ RowIdle

\* one call of PaletteLoader::load on the parsed file
Load ==
    /\ pc = "start"
    /\ LET r == load(palette_data, config, iter_order, key_order)
       IN  /\ load_status' = r.status
           /\ palette' = r.palette
    /\ pc' = "loaded"
    /\ UNCHANGED <<palette_data, config, iter_order, key_order>>
    /\ UNCHANGED generatorVars
    /\ UNCHANGED imageVars
    /\ UNCHANGED lithophaneVars
    /\ UNCHANGED exportVars
    /\ UNCHANGED combiVars
    /\ UNCHANGED rowVars

Next == Load

Spec == Init /\ [][Next]_vars

\* the combis stored in the loaded palette
StoredCombis == { palette.quantized_colors[k] : k \in DOMAIN palette.quantized_colors }

LoadedOk == pc = "loaded" /\ load_status = "ok"

\* C1: after a successful load every stored combi's layer counts sum to
\* nb_layers * nb_groups, and Palette::layer_count is that product.
C1_HeightBudget ==
    LoadedOk =>
        /\ palette.layer_count = config.nb_layers * palette.nb_groups
        /\ \A c \in StoredCombis : total_layers(c) = config.nb_layers * palette.nb_groups

\* a successful additive load with two slot groups in which a stored combi was
\* merged across the seam (it has fewer layers than hex codes drawn twice)
C1_Witness ==
    /\ LoadedOk
    /\ config.creation_method = "Additive"
    /\ palette.nb_groups >= 2
    /\ \E c \in StoredCombis :
          /\ \E i \in 1..Len(c) : c[i].hex_code = WHITE /\ c[i].layer > 2
          /\ \E i \in 1..Len(c) : c[i].hex_code # WHITE

\* C2: after a successful load no stored combi has two adjacent layers with the
\* same hex code.
C2_NoAdjacentEqualHex ==
    LoadedOk =>
        \A c \in StoredCombis :
            \A i \in 1..(Len(c) - 1) : c[i].hex_code # c[i + 1].hex_code

\* the load of the same file and config when both HashMaps iterate in sorted order
ReferenceLoad ==
    load(palette_data, config, SortStrings(DOMAIN palette_data),
         [h \in DOMAIN palette_data |-> SortStrings(LayerKeys(palette_data[h]))])

\* C8: the loaded palette does not depend on the iteration order of the hash
\* maps: it stores the same combi under each RGB as the load in sorted order.
C8_BitStable ==
    (LoadedOk /\ ReferenceLoad.status = "ok") =>
        palette.quantized_colors = ReferenceLoad.palette.quantized_colors

\* C9: in additive mode with color_number = 1 and an active non-white filament,
\* load completes exactly as for color_number = 0 (a single slot group).
C9_ColorNumberOneIsSingleGroup ==
    ( /\ pc = "loaded"
      /\ config.creation_method = "Additive"
      /\ config.color_number = 1
      /\ \E h \in DOMAIN palette_data :
            h # WHITE /\ palette_data[h].active /\ IsSome(palette_data[h].layers) )
    => /\ [status |-> load_status, palette |-> palette]
            = load(palette_data, [config EXCEPT !.color_number = 0], iter_order, key_order)
       /\ load_status = "ok" => palette.nb_groups = 1

\* C10: a successful load never yields a palette with zero colours (an empty
\* combination set is reported as InvalidPalette).
C10_NoEmptyPalette ==
    LoadedOk => DOMAIN palette.quantized_colors # {}

\* the sorted active non-white hex codes and the quota of the load
WorkingHexList == SelectSeq(HexColorList(palette_data), LAMBDA h : h # WHITE)
Quota == NbColorPool(config, WorkingHexList)

\* C14: for n >= 1 non-white hex codes and quota q >= 1 the loader forms
\* ceil(n/q) groups, group g holding the sorted hex codes at positions
\* g*q .. min(n, (g+1)*q) - 1 followed by "#FFFFFF"; every non-white hex code is
\* in exactly one group.
C14_SequentialGroups ==
    (pc = "loaded" /\ Len(WorkingHexList) >= 1 /\ Quota >= 1) =>
        LET n == Len(WorkingHexList)
            q == Quota
            nb_groups == NbGroups(q, WorkingHexList)
            groups == HexColorGroups(WorkingHexList, q, nb_groups)
        IN  /\ nb_groups * q >= n /\ (nb_groups - 1) * q < n
            /\ Len(groups) = nb_groups
            /\ \A g \in 1..nb_groups :
                  groups[g] = SubSeq(WorkingHexList, (g - 1) * q + 1, Min2(n, g * q)) \o <<WHITE>>
            /\ \A i \in 1..n :
                  Cardinality({ g \in 1..nb_groups : Contains(groups[g], WorkingHexList[i]) }) = 1
            /\ load_status = "ok" => palette.nb_groups = nb_groups

\* a successful load of three non-white hex codes with quota 2: a full group
\* and a group of one
C14_Witness ==
    /\ LoadedOk
    /\ Len(WorkingHexList) = 3
    /\ Quota = 2
    /\ palette.nb_groups = 2

\* ------------------------------------------------------------------ create_multi_combi on its own

\* measured colours used for the filaments: pure red, pure green, white
GenLayerPool ==
    { ColorLayer(RED, n, <<0, 100, 50>>) : n \in {1, 2} }
    \cup { ColorLayer(GREEN, n, <<120, 100, 50>>) : n \in {1, 2} }
    \cup { ColorLayer(WHITE, n, <<0, 0, 100>>) : n \in {1, 2} }

GenRestrictions ==
    { None, Some(<<RED, WHITE>>), Some(<<RED, GREEN, WHITE>>), Some(<<GREEN>>) }

InitGen ==
    /\ pc = "gen_start"
    /\ color_layers \in DistinctSeqs(GenLayerPool, MaxGenLayers)
    /\ restrict_colors \in GenRestrictions
    /\ nb_layers_target \in 1..MaxNbLayers
    /\ combis = <<>>
    /\ LoaderIdle
    /\ ImageIdle
    /\ LithophaneIdle
    /\ ExportIdle
    /\ CombiIdle
    /\ RowIdle

\* one call of create_multi_combi
CreateMultiCombi ==
    /\ pc = "gen_start"
    /\ combis' = create_multi_combi(restrict_colors, color_layers, nb_layers_target)
    /\ pc' = "gen_done"
    /\ UNCHANGED <<color_layers, restrict_colors, nb_layers_target>>
    /\ UNCHANGED loaderVars
    /\ UNCHANGED imageVars
    /\ UNCHANGED lithophaneVars
    /\ UNCHANGED exportVars
    /\ UNCHANGED combiVars
    /\ UNCHANGED rowVars

NextGen == CreateMultiCombi

SpecGen == InitGen /\ [][NextGen]_vars

\* the set of (hex code, layer count) layers a combi consists of
LayerSet(combi) == { combi[i] : i \in 1..Len(combi) }

\* C4: create_multi_combi returns no two combis that consist of the same set of
\* layers (each multiset of layers is enumerated exactly once).
C4_EachMultisetOnce ==
    pc = "gen_done" =>
        \A i, j \in 1..Len(combis) : i # j => LayerSet(combis[i]) # LayerSet(combis[j])

\* C5: every combi returned by create_multi_combi has pairwise-distinct hex codes,
\* layer counts summing to exactly the target, and only admissible hex codes.
C5_CombisWellFormed ==
    pc = "gen_done" =>
        \A n \in 1..Len(combis) :
            LET c == combis[n]
            IN  /\ \A i, j \in 1..Len(c) : i # j => c[i].hex_code # c[j].hex_code
                /\ total_layers(c) = nb_layers_target
                /\ \A i \in 1..Len(c) : Admissible(restrict_colors, c[i])

C5_Witness ==
    /\ pc = "gen_done"
    /\ IsSome(restrict_colors)
    /\ \E n \in 1..Len(combis) : Len(combis[n]) >= 2
    /\ \E i \in 1..Len(color_layers) : ~Admissible(restrict_colors, color_layers[i])
    /\ \E i \in 1..Len(color_layers) :
          /\ Admissible(restrict_colors, color_layers[i])
          /\ color_layers[i].layer < nb_layers_target

RECURSIVE SetSum(_)
SetSum(S) ==
    IF S = {} THEN 0 ELSE LET x == CHOOSE y \in S : TRUE IN x.layer + SetSum(S \ {x})

\* the sets of input layers create_multi_combi has to produce
Targets ==
    { S \in SUBSET { color_layers[i] : i \in 1..Len(color_layers) } :
        /\ S # {}
        /\ \A a, b \in S : a # b => a.hex_code # b.hex_code
        /\ \A a \in S : Admissible(restrict_colors, a)
        /\ SetSum(S) = nb_layers_target }

\* C6: create_multi_combi is complete: every set of admissible input layers with
\* pairwise-distinct hex codes whose counts sum to the target occurs in the result.
C6_Complete ==
    pc = "gen_done" =>
        \A S \in Targets : \E n \in 1..Len(combis) : LayerSet(combis[n]) = S

C6_Witness ==
    /\ pc = "gen_done"
    /\ Len(color_layers) >= 3
    /\ \E S \in Targets :
          /\ Cardinality(S) >= 2
          /\ color_layers[Len(color_layers)] \in S
          /\ \E n \in 1..Len(combis) : LayerSet(combis[n]) = S

\* ------------------------------------------------------------------ colour distance (distance.rs)

\* f64::MAX, above every distance of the model
F64_MAX == 2147483647

\* impl ColorDistance for Rgb: squared euclidean distance on the channels
rgb_distance(a, b) ==
    (a[1] - b[1]) * (a[1] - b[1]) + (a[2] - b[2]) * (a[2] - b[2])
    + (a[3] - b[3]) * (a[3] - b[3])

\* impl From<Rgb> for CieLab on the colours of the model: <<L, a, b>> in 1/100,
\* the values rgb_to_xyz and xyz_to_lab give for these colours
cielab_from(rgb) ==
    CASE rgb = <<0, 0, 0>> -> <<0, 0, 0>>
      [] rgb = <<255, 0, 0>> -> <<5324, 8009, 6720>>
      [] rgb = <<255, 255, 0>> -> <<9714, -2155, 9448>>
      [] rgb = <<255, 255, 255>> -> <<10000, 0, 0>>
      [] rgb = <<128, 128, 128>> -> <<5359, 0, 0>>

\* CieLab::delta_e, squared (the square root keeps the order of the distances)
delta_e(a, b) ==
    (a[1] - b[1]) * (a[1] - b[1]) + (a[2] - b[2]) * (a[2] - b[2])
    + (a[3] - b[3]) * (a[3] - b[3])

RECURSIVE find_closest_rgb_last_wins(_, _, _, _, _)
\* the loop of find_closest_rgb with <= in place of <: the last minimum wins
find_closest_rgb_last_wins(target, colors, i, min_distance, closest) ==
    IF i > Len(colors) THEN closest
    ELSE LET distance == rgb_distance(target, colors[i])
         IN  IF distance <= min_distance
             THEN find_closest_rgb_last_wins(target, colors, i + 1, distance, colors[i])
             ELSE find_closest_rgb_last_wins(target, colors, i + 1, min_distance, closest)

RECURSIVE find_closest_rgb_from(_, _, _, _, _)
\* the loop of find_closest_rgb from index i on
find_closest_rgb_from(target, colors, i, min_distance, closest) ==
    IF i > Len(colors) THEN closest
    ELSE LET distance == rgb_distance(target, colors[i])
         IN  IF distance < min_distance
             THEN find_closest_rgb_from(target, colors, i + 1, distance, colors[i])
             ELSE find_closest_rgb_from(target, colors, i + 1, min_distance, closest)

\* distance.rs find_closest_rgb
find_closest_rgb(target, colors) ==
    find_closest_rgb_from(target, colors, 1, F64_MAX, colors[1])

RECURSIVE find_closest_cielab_from(_, _, _, _, _, _)
\* the loop of find_closest_cielab over colors zipped with palette_labs
find_closest_cielab_from(target_lab, colors, palette_labs, i, min_distance, closest) ==
    IF i > Min2(Len(colors), Len(palette_labs)) THEN closest
    ELSE LET distance == delta_e(target_lab, palette_labs[i])
         IN  IF distance < min_distance
             THEN find_closest_cielab_from(target_lab, colors, palette_labs, i + 1,
                                           distance, colors[i])
             ELSE find_closest_cielab_from(target_lab, colors, palette_labs, i + 1,
                                           min_distance, closest)

\* distance.rs find_closest_cielab
find_closest_cielab(target, colors, palette_labs) ==
    find_closest_cielab_from(cielab_from(target), colors, palette_labs, 1, F64_MAX, colors[1])

\* distance.rs find_closest_color_precomputed (colors is non-empty at every call)
find_closest_color_precomputed(target, colors, palette_labs, method) ==
    IF method = "Rgb" THEN find_closest_rgb(target, colors)
    ELSE find_closest_cielab(target, colors, palette_labs)

\* ------------------------------------------------------------------ quantize.rs

\* quantize_pixels
quantize_pixels(pixels, colors, method) ==
    IF colors = <<>> THEN pixels
    ELSE LET palette_labs == [i \in 1..Len(colors) |-> cielab_from(colors[i])]
         IN  [i \in 1..Len(pixels) |->
                find_closest_color_precomputed(pixels[i], colors, palette_labs, method)]

\* quantize_image
quantize_image(image_data, colors, method) ==
    IF colors = <<>> THEN image_data
    ELSE LET palette_labs == [i \in 1..Len(colors) |-> cielab_from(colors[i])]
         IN  [y \in 1..Len(image_data) |->
                [x \in 1..Len(image_data[y]) |->
                    find_closest_color_precomputed(image_data[y][x], colors,
                                                   palette_labs, method)]]

\* ------------------------------------------------------------------ image/mod.rs
\* an RgbaImage is its rows, top to bottom; a pixel is <<r, g, b, a>>

\* is_pixel_transparent
is_pixel_transparent(pixel) == pixel[4] < 255

\* extract_pixels: rows of Option<Rgb>
extract_pixels(img) ==
    [y \in 1..Len(img) |->
        [x \in 1..Len(img[y]) |->
            IF is_pixel_transparent(img[y][x]) THEN None
            ELSE Some(<<img[y][x][1], img[y][x][2], img[y][x][3]>>)]]

\* extract_pixels_flat
extract_pixels_flat(img) ==
    LET flat == Concat(img)
        kept == SelectSeq(flat, LAMBDA p : ~is_pixel_transparent(p))
    IN  [i \in 1..Len(kept) |-> <<kept[i][1], kept[i][2], kept[i][3]>>]

\* flip_vertical
flip_vertical(img) == [y \in 1..Len(img) |-> img[Len(img) + 1 - y]]

\* ------------------------------------------------------------------ lithophane/generator.rs

\* generate: row.iter().filter_map(|&p| p).collect() on each extracted row
FilterMapRows(pixels_with_option) ==
    [y \in 1..Len(pixels_with_option) |->
        LET kept == SelectSeq(pixels_with_option[y], IsSome)
        IN  [x \in 1..Len(kept) |-> Unwrap(kept[x])]]

\* generator.rs pixels_to_image
pixels_to_image(pixels) ==
    LET height == Len(pixels)
        width == IF height > 0 THEN Len(pixels[1]) ELSE 0
    IN  [y \in 1..height |->
            [x \in 1..width |->
                IF x > Len(pixels[y]) THEN <<0, 0, 0, 0>>
                ELSE <<pixels[y][x][1], pixels[y][x][2], pixels[y][x][3], 255>>]]

\* ------------------------------------------------------------------ images explored

\* opaque red, opaque mid grey, fully transparent
PixelChoices == { <<255, 0, 0, 255>>, <<128, 128, 128, 255>>, <<0, 0, 0, 0>> }

\* palette keys explored: black, yellow, white
PaletteColorChoices == { <<0, 0, 0>>, <<255, 255, 0>>, <<255, 255, 255>> }

\* every width x height image with at most MaxPixels pixels
Images ==
    UNION { [1..d[2] -> [1..d[1] -> PixelChoices]] :
              d \in { e \in (1..MaxPixels) \X (1..MaxPixels) : e[1] * e[2] <= MaxPixels } }

InitImage ==
    /\ pc = "image_start"
    /\ image \in Images
    /\ palette_colors \in {<<>>} \cup DistinctSeqs(PaletteColorChoices, Cardinality(PaletteColorChoices))
    /\ distance_method \in {"Rgb", "CieLab"}
    /\ quantized = <<>>
    /\ quantized_image = <<>>
    /\ color_image = <<>>
    /\ LoaderIdle
    /\ GeneratorIdle
    /\ LithophaneIdle
    /\ ExportIdle
    /\ CombiIdle
    /\ RowIdle

\* one call of quantize_pixels on the flat opaque pixels of the image
QuantizePixels ==
    /\ pc = "image_start"
    /\ quantized' = quantize_pixels(extract_pixels_flat(image), palette_colors, distance_method)
    /\ pc' = "pixels_quantized"
    /\ UNCHANGED <<image, palette_colors, distance_method, quantized_image, color_image>>
    /\ UNCHANGED loaderVars
    /\ UNCHANGED generatorVars
    /\ UNCHANGED lithophaneVars
    /\ UNCHANGED exportVars
    /\ UNCHANGED combiVars
    /\ UNCHANGED rowVars

\* the colour pipeline of LithophaneGenerator::generate on the resized image
GenerateColorImage ==
    /\ pc = "image_start"
    /\ LET pixels == FilterMapRows(extract_pixels(image))
           quantized_pixels == quantize_image(pixels, palette_colors, distance_method)
       IN  /\ quantized' = quantized_pixels
           /\ quantized_image' = pixels_to_image(quantized_pixels)
           /\ color_image' = flip_vertical(pixels_to_image(quantized_pixels))
    /\ pc' = "generated"
    /\ UNCHANGED <<image, palette_colors, distance_method>>
    /\ UNCHANGED loaderVars
    /\ UNCHANGED generatorVars
    /\ UNCHANGED lithophaneVars
    /\ UNCHANGED exportVars
    /\ UNCHANGED combiVars
    /\ UNCHANGED rowVars

NextImage == QuantizePixels \/ GenerateColorImage

SpecImage == InitImage /\ [][NextImage]_vars

\* the colour grid generate quantizes: the opaque pixels of each row of the image
GeneratePixels == FilterMapRows(extract_pixels(image))

\* C3: in generate the quantized image (before the vertical flip) has the width
\* and height of the resized image, is transparent exactly where the resized
\* image is, and holds at each opaque (x, y) the quantized colour of that pixel.
C3_LayoutPreserved ==
    pc = "generated" =>
        /\ Len(quantized_image) = Len(image)
        /\ \A y \in 1..Len(image) :
              /\ Len(quantized_image[y]) = Len(image[y])
              /\ \A x \in 1..Len(image[y]) :
                    /\ is_pixel_transparent(quantized_image[y][x])
                          <=> is_pixel_transparent(image[y][x])
                    /\ ~is_pixel_transparent(image[y][x]) =>
                          quantized_image[y][x] =
                              LET p == <<image[y][x][1], image[y][x][2], image[y][x][3]>>
                                  q == quantize_pixels(<<p>>, palette_colors, distance_method)[1]
                              IN  <<q[1], q[2], q[3], 255>>

\* the distance the chosen method compares
Distance(method, a, b) ==
    IF method = "Rgb" THEN rgb_distance(a, b)
    ELSE delta_e(cielab_from(a), cielab_from(b))

\* q is the colour at the lowest index of colors among those nearest to p
IsFirstNearest(p, q, colors, method) ==
    \E i \in 1..Len(colors) :
        /\ q = colors[i]
        /\ \A j \in 1..Len(colors) :
              /\ Distance(method, p, colors[j]) >= Distance(method, p, colors[i])
              /\ j < i => Distance(method, p, colors[j]) > Distance(method, p, colors[i])

\* C7: for a non-empty palette colour list quantize_pixels and quantize_image
\* return an output of the shape of the input, each output pixel being the palette
\* colour at the lowest index among those nearest to the input pixel at its position.
C7_FirstNearestColor ==
    palette_colors # <<>> =>
        /\ pc = "pixels_quantized" =>
              LET pixels == extract_pixels_flat(image)
              IN  /\ Len(quantized) = Len(pixels)
                  /\ \A i \in 1..Len(pixels) :
                        IsFirstNearest(pixels[i], quantized[i], palette_colors, distance_method)
        /\ pc = "generated" =>
              /\ Len(quantized) = Len(GeneratePixels)
              /\ \A y \in 1..Len(GeneratePixels) :
                    /\ Len(quantized[y]) = Len(GeneratePixels[y])
                    /\ \A x \in 1..Len(GeneratePixels[y]) :
                          IsFirstNearest(GeneratePixels[y][x], quantized[y][x],
                                         palette_colors, distance_method)

\* quantize_image has quantized rows of different lengths, one of them holding a
\* pixel with two nearest palette colours, the later of them not chosen
C7_Witness ==
    /\ pc = "generated"
    /\ Len(palette_colors) >= 2
    /\ \E y1, y2 \in 1..Len(quantized) : Len(quantized[y1]) # Len(quantized[y2])
    /\ \E y \in 1..Len(quantized) : \E x \in 1..Len(quantized[y]) :
          \E i, j \in 1..Len(palette_colors) :
              /\ i < j
              /\ quantized[y][x] = palette_colors[i]
              /\ Distance(distance_method, GeneratePixels[y][x], palette_colors[i])
                    = Distance(distance_method, GeneratePixels[y][x], palette_colors[j])

\* ------------------------------------------------------------------ load on malformed palette files

\* "#ffffff", and a layer hexcode that Rgb::from_hex rejects ("#GG0000")
white_lower == <<35, 102, 102, 102, 102, 102, 102>>
BAD_HEXCODE == <<35, 71, 71, 48, 48, 48, 48>>

\* layer keys "0" and "x"
Key0 == <<48>>
KeyX == <<120>>

\* the entries explored per hex code in files with unusual keys
KeyEntryChoices(hex) ==
    IF hex = WHITE THEN
        { Entry("White", TRUE, Layers1(Key1, HslDef(0, 0, 100))),
          Entry("White", FALSE, Layers1(Key1, HslDef(0, 0, 100))),
          Entry("White", TRUE, None) }
    ELSE IF hex = white_lower THEN
        { Entry("white", TRUE, Layers1(Key1, HslDef(0, 0, 100))) }
    ELSE
        { Entry("Green", TRUE, Layers1(Key1, HslDef(120, 100, 50))),
          Entry("Green", TRUE, Layers1(Key0, HslDef(120, 100, 50))),
          Entry("Green", TRUE, Layers1(KeyX, HslDef(120, 100, 50))),
          Entry("Green", TRUE, Layers1(Key1, HexcodeDef(BAD_HEXCODE))),
          Entry("Green", FALSE, Layers1(Key0, HslDef(120, 100, 50))) }

RECURSIVE KeyFilesOver(_)
\* every parsed HashMap with such an entry, or none, under each of the hex codes
KeyFilesOver(hexes) ==
    IF hexes = {} THEN {EmptyMap}
    ELSE LET h == CHOOSE x \in hexes : TRUE
             rest == KeyFilesOver(hexes \ {h})
         IN  rest \cup { MapInsert(f, h, e) : f \in rest, e \in KeyEntryChoices(h) }

KeyFiles == KeyFilesOver({WHITE, white_lower, GREEN})

InitKeys ==
    /\ pc = "start"
    /\ palette_data \in KeyFiles
    /\ config \in Configs
    /\ iter_order \in Orderings(DOMAIN palette_data)
    /\ key_order \in KeyOrdersOver(palette_data, DOMAIN palette_data)
    /\ palette = <<>>
    /\ load_status = "none"
    /\ GeneratorIdle
    /\ ImageIdle
    /\ LithophaneIdle
    /\ ExportIdle
    /\ CombiIdle
    /\ RowIdle

SpecKeys == InitKeys /\ [][Next]_vars

\* the entry under hex is active and has a layers object
Usable(hex) ==
    hex \in DOMAIN palette_data /\ palette_data[hex].active /\ IsSome(palette_data[hex].layers)

\* C11: in additive mode load returns InvalidPalette whenever an active entry has
\* a layer key that is not a positive integer ("0" included), and every layer of
\* a loaded palette has a count of at least 1.
C11_PositiveLayerKeys ==
    (pc = "loaded" /\ config.creation_method = "Additive") =>
        /\ (\E h \in DOMAIN palette_data :
               /\ palette_data[h].active
               /\ \E k \in LayerKeys(palette_data[h]) : parse_u32(k) < 1)
           => load_status = "InvalidPalette"
        /\ load_status = "ok" =>
               \A c \in StoredCombis : \A i \in 1..Len(c) : c[i].layer >= 1

\* C12: in additive mode load returns InvalidPalette and no palette whenever
\* "#FFFFFF" is not among the active entries with layers, whatever the other
\* entries hold.
C12_WhiteRequired ==
    (pc = "loaded" /\ config.creation_method = "Additive" /\ ~Usable(WHITE)) =>
        load_status = "InvalidPalette" /\ palette = <<>>

\* additive load without a usable white whose only other entry has a layer
\* hexcode that from_hex rejects
C12_Witness ==
    /\ pc = "loaded"
    /\ config.creation_method = "Additive"
    /\ ~Usable(WHITE)
    /\ Usable(GREEN)
    /\ \E k \in LayerKeys(palette_data[GREEN]) :
          /\ Unwrap(palette_data[GREEN].layers)[k].kind = "Hexcode"
          /\ ~from_hex(Unwrap(palette_data[GREEN].layers)[k].hexcode).ok
    /\ load_status = "InvalidPalette"

\* C13: hex-code keys are case-insensitive: a white entry keyed "#ffffff"
\* satisfies the additive-mode white requirement, and a loaded palette holds
\* no lowercase hex code in its layers or slot list.
C13_HexKeysCaseInsensitive ==
    /\ ( /\ pc = "loaded"
         /\ config.creation_method = "Additive"
         /\ Usable(white_lower)
         /\ \A h \in DOMAIN palette_data : palette_data[h].active =>
               \A k \in LayerKeys(palette_data[h]) :
                  /\ parse_u32(k) >= 1
                  /\ Unwrap(palette_data[h].layers)[k].kind = "Hsl" )
       => load_status # "InvalidPalette"
    /\ LoadedOk =>
          /\ \A c \in StoredCombis : \A i \in 1..Len(c) : c[i].hex_code # white_lower
          /\ \A n \in 1..Len(palette.hex_color_group_list) :
                ~Contains(palette.hex_color_group_list[n], white_lower)

\* ------------------------------------------------------------------ apply_layer_offset (color_layer.rs)

\* largest layer height, layer position, window offset and window size explored
MaxClip == 4

\* usize::saturating_sub
saturating_sub(a, b) == IF a >= b THEN a - b ELSE 0

\* apply_layer_offset without the clamp of a layer that starts below the window
apply_layer_offset_no_clamp(layer_height, layer_before, offset, layer_max) ==
    IF layer_before >= offset + layer_max THEN <<0, 0>>
    ELSE IF layer_before < offset
    THEN IF layer_before + layer_height < offset THEN <<0, 0>>
         ELSE <<layer_height - (offset - layer_before), 0>>
    ELSE LET new_before == saturating_sub(layer_before, offset)
         IN  IF layer_height + new_before > layer_max
             THEN <<layer_height - ((layer_height + new_before) - layer_max), new_before>>
             ELSE <<layer_height, new_before>>

\* apply_layer_offset: (new_height, new_before) of the layer seen through the
\* window; offset and layer_max arrive as non-negative i32 (process_row calls
\* the function only when neither is the sentinel -1), so the casts to usize
\* keep their values
apply_layer_offset(layer_height, layer_before, offset, layer_max) ==
    IF layer_before >= offset + layer_max THEN <<0, 0>>
    ELSE IF layer_before < offset
    THEN IF layer_before + layer_height < offset THEN <<0, 0>>
         ELSE LET delta == offset - layer_before
                  new_height == layer_height - delta
                  new_before == 0
              IN  IF new_height > layer_max
                  THEN <<layer_max, new_before>>
                  ELSE <<new_height, new_before>>
    ELSE LET new_before == saturating_sub(layer_before, offset)
             new_height == layer_height
         IN  IF new_height + new_before > layer_max
             THEN <<new_height - ((new_height + new_before) - layer_max), new_before>>
             ELSE <<new_height, new_before>>

InitClip ==
    /\ pc = "clip_start"
    /\ clip \in [layer_height : 0..MaxClip, layer_before : 0..MaxClip,
                 offset : 0..MaxClip, layer_max : 0..MaxClip]
    /\ clipped = <<>>
    /\ LoaderIdle
    /\ GeneratorIdle
    /\ ImageIdle
    /\ MeshIdle
    /\ GenerateIdle
    /\ ExportIdle
    /\ CombiIdle
    /\ RowIdle

\* one call of apply_layer_offset
ApplyLayerOffset ==
    /\ pc = "clip_start"
    /\ clipped' = apply_layer_offset(clip.layer_height, clip.layer_before,
                                     clip.offset, clip.layer_max)
    /\ pc' = "clipped"
    /\ UNCHANGED clip
    /\ UNCHANGED loaderVars
    /\ UNCHANGED generatorVars
    /\ UNCHANGED imageVars
    /\ UNCHANGED meshVars
    /\ UNCHANGED generateVars
    /\ UNCHANGED exportVars
    /\ UNCHANGED combiVars
    /\ UNCHANGED rowVars

NextClip == ApplyLayerOffset

SpecClip == InitClip /\ [][NextClip]_vars

\* C15: for a layer [b, b+h) and a window [o, o+m) the returned height is the
\* length of the intersection of the two intervals and, when it is positive,
\* the returned start is max(b, o) - o; a layer entirely above (b >= o+m) or
\* entirely below (b+h < o) the window gives (0, 0), an exact fit gives (h, 0),
\* and start plus height never exceed m.
C15_WindowClip ==
    pc = "clipped" =>
        LET h == clip.layer_height
            b == clip.layer_before
            o == clip.offset
            m == clip.layer_max
        IN  /\ clipped[1] = Max2(0, Min2(b + h, o + m) - Max2(b, o))
            /\ clipped[1] > 0 => clipped[2] = Max2(b, o) - o
            /\ (b >= o + m \/ b + h < o) => clipped = <<0, 0>>
            /\ (b = o /\ h = m) => clipped = <<h, 0>>
            /\ clipped[1] + clipped[2] <= m

\* a layer that starts below the window and ends above it fills the window
C15_Witness ==
    /\ pc = "clipped"
    /\ clip.layer_before < clip.offset
    /\ clip.layer_before + clip.layer_height > clip.offset + clip.layer_max
    /\ clip.layer_max > 0
    /\ clipped = <<clip.layer_max, 0>>

\* ------------------------------------------------------------------ geometry.rs

\* Lengths are exact integers in units of 1/20 mm, so that the halves the
\* code takes of widths and thicknesses stay integers.
Vector3(x, y, z) == <<x, y, z>>

\* impl Add / Sub for Vector3
vadd(a, b) == <<a[1] + b[1], a[2] + b[2], a[3] + b[3]>>
vsub(a, b) == <<a[1] - b[1], a[2] - b[2], a[3] - b[3]>>

\* Vector3::cross
cross(a, b) ==
    <<a[2] * b[3] - a[3] * b[2], a[3] * b[1] - a[1] * b[3], a[1] * b[2] - a[2] * b[1]>>

\* Vector3::dot
dot(a, b) == a[1] * b[1] + a[2] * b[2] + a[3] * b[3]

\* Triangle::new
Triangle(v0, v1, v2) == <<v0, v1, v2>>

\* Mesh::cube: the 12 triangles in the order the code adds them
cube(width, depth, height, center) ==
    LET hw == width \div 2
        hd == depth \div 2
        hh == height \div 2
        v000 == vadd(center, Vector3(-hw, -hd, -hh))
        v001 == vadd(center, Vector3(-hw, -hd, hh))
        v010 == vadd(center, Vector3(-hw, hd, -hh))
        v011 == vadd(center, Vector3(-hw, hd, hh))
        v100 == vadd(center, Vector3(hw, -hd, -hh))
        v101 == vadd(center, Vector3(hw, -hd, hh))
        v110 == vadd(center, Vector3(hw, hd, -hh))
        v111 == vadd(center, Vector3(hw, hd, hh))
    IN  << Triangle(v010, v110, v111), Triangle(v010, v111, v011),
           Triangle(v000, v101, v100), Triangle(v000, v001, v101),
           Triangle(v100, v110, v101), Triangle(v110, v111, v101),
           Triangle(v000, v011, v001), Triangle(v000, v010, v011),
           Triangle(v001, v101, v111), Triangle(v001, v111, v011),
           Triangle(v000, v110, v010), Triangle(v000, v100, v110) >>

\* ------------------------------------------------------------------ generate_color_layer (color_layer.rs)

\* largest number of pixels (width * height) of a grid handed to generate_color_layer
MaxLayerPixels == 6

\* LithophaneConfig::default(), lengths in 1/20 mm
DefaultConfig ==
    [dest_width_mm |-> 0, dest_height_mm |-> 0,
     color_pixel_width |-> 16, color_pixel_layer_thickness |-> 2,
     color_pixel_layer_number |-> 5, color_layer |-> TRUE,
     texture_pixel_width |-> 5, texture_min_thickness |-> 6, texture_max_thickness |-> 36,
     texture_layer |-> TRUE,
     plate_thickness |-> 4, color_distance_method |-> "CieLab", curve |-> 0]

\* RgbaImage::get_pixel, x and y counted from 0
get_pixel(img, x, y) == img[y + 1][x + 1]

\* RgbaImage::dimensions: (width, height)
dimensions(img) == <<IF Len(img) > 0 THEN Len(img[1]) ELSE 0, Len(img)>>

\* image::has_transparent_pixel
has_transparent_pixel(img) ==
    \E y \in 1..Len(img) : \E x \in 1..Len(img[y]) : img[y][x][4] < 255

\* has_transparent_neighbor: one of the up to 8 neighbours inside the image is transparent
has_transparent_neighbor(img, x, y) ==
    LET width == dimensions(img)[1]
        height == dimensions(img)[2]
    IN  \E dy \in -1..1 : \E dx \in -1..1 :
            /\ ~(dx = 0 /\ dy = 0)
            /\ ~(x + dx < 0 \/ y + dy < 0 \/ x + dx >= width \/ y + dy >= height)
            /\ is_pixel_transparent(get_pixel(img, x + dx, y + dy))

\* Palette::get_combi
get_combi(pal, color) ==
    IF color \in DOMAIN pal.quantized_colors THEN Some(pal.quantized_colors[color]) ELSE None

\* ColorCombi::layers_with_hex
layers_with_hex(combi, hex_code) == SelectSeq(combi, LAMBDA l : l.hex_code = hex_code)

RECURSIVE layer_position_from(_, _, _, _, _, _)
\* the loop of ColorCombi::layer_position from layer i on
layer_position_from(combi, i, target_hex, target_index, count, hex_index) ==
    IF i > Len(combi) THEN None
    ELSE IF combi[i].hex_code = target_hex /\ hex_index = target_index THEN Some(count)
    ELSE layer_position_from(combi, i + 1, target_hex, target_index,
                             count + combi[i].layer,
                             IF combi[i].hex_code = target_hex THEN hex_index + 1 ELSE hex_index)

\* a layer_position that stops at the first layer of the hex code, whatever the index
layer_position_first_match(combi, target_hex, target_index) ==
    layer_position_from(combi, 1, target_hex, 0, 0, 0)

\* ColorCombi::layer_position
layer_position(combi, target_hex, target_index) ==
    layer_position_from(combi, 1, target_hex, target_index, 0, 0)

\* Option::unwrap_or
unwrap_or(o, d) == IF IsSome(o) THEN Unwrap(o) ELSE d

\* the run-length loop that tests the transparent neighbours of no later pixel
run_length_first_only(img, x, y, k, has_transparency) ==
    LET width == dimensions(img)[1]
        same(j) == <<get_pixel(img, x + j, y)[1], get_pixel(img, x + j, y)[2],
                     get_pixel(img, x + j, y)[3]>>
                   = <<get_pixel(img, x, y)[1], get_pixel(img, x, y)[2], get_pixel(img, x, y)[3]>>
    IN  CHOOSE n \in k..width :
            /\ \A j \in k..(n - 1) : x + j < width /\ same(j)
            /\ ~(x + n < width /\ same(n))

RECURSIVE run_length(_, _, _, _, _)
\* process_row: the run-length loop, entered with k pixels in the run
run_length(img, x, y, k, has_transparency) ==
    LET width == dimensions(img)[1]
        pixel == get_pixel(img, x, y)
        pixel_rgb == <<pixel[1], pixel[2], pixel[3]>>
    IN  IF x + k < width
        THEN LET next_pixel == get_pixel(img, x + k, y)
                 next_rgb == <<next_pixel[1], next_pixel[2], next_pixel[3]>>
             IN  IF next_rgb # pixel_rgb
                    \/ (has_transparency /\ has_transparent_neighbor(img, x + k, y))
                 THEN k
                 ELSE run_length(img, x, y, k + 1, has_transparency)
        ELSE k

\* run_cubes with every cube one pixel wide, whatever the length of the run
run_cubes_one_pixel_wide(pal, hex_code, cfg, x, y, k, pixel_rgb, layer_offset, layer_max) ==
    LET found == get_combi(pal, pixel_rgb)
    IN  IF ~IsSome(found) THEN <<>>
        ELSE
        LET color_combi == Unwrap(found)
            lays == layers_with_hex(color_combi, hex_code)
            one(layer_index) ==
                LET layer_height == lays[layer_index + 1].layer
                    layer_before == unwrap_or(layer_position(color_combi, hex_code, layer_index), 0)
                    adjusted == IF layer_offset # -1 /\ layer_max # -1
                                THEN apply_layer_offset(layer_height, layer_before,
                                                        layer_offset, layer_max)
                                ELSE <<layer_height, layer_before>>
                    adjusted_height == adjusted[1]
                    adjusted_before == adjusted[2]
                    pixel_width == cfg.color_pixel_width
                    one_pixel_height_size == cfg.color_pixel_layer_thickness
                    cur_pixel_height == one_pixel_height_size * adjusted_height
                    cur_pixel_height_adjust ==
                        (cur_pixel_height \div 2) + (adjusted_before * one_pixel_height_size)
                    cube_width == pixel_width
                    center == Vector3((x * pixel_width) + (cube_width \div 2),
                                      y * pixel_width, cur_pixel_height_adjust)
                IN  IF layer_height = 0 \/ adjusted_height = 0 THEN <<>>
                    ELSE cube(cube_width, pixel_width, cur_pixel_height, center)
        IN  Concat([i \in 1..Len(lays) |-> one(i - 1)])

\* process_row: the cubes of one run, one per layer of hex_code in the pixel's combi
run_cubes(pal, hex_code, cfg, x, y, k, pixel_rgb, layer_offset, layer_max) ==
    LET found == get_combi(pal, pixel_rgb)
    IN  IF ~IsSome(found) THEN <<>>
        ELSE
        LET color_combi == Unwrap(found)
            lays == layers_with_hex(color_combi, hex_code)
            one(layer_index) ==
                LET layer_height == lays[layer_index + 1].layer
                    layer_before == unwrap_or(layer_position(color_combi, hex_code, layer_index), 0)
                    adjusted == IF layer_offset # -1 /\ layer_max # -1
                                THEN apply_layer_offset(layer_height, layer_before,
                                                        layer_offset, layer_max)
                                ELSE <<layer_height, layer_before>>
                    adjusted_height == adjusted[1]
                    adjusted_before == adjusted[2]
                    pixel_width == cfg.color_pixel_width
                    one_pixel_height_size == cfg.color_pixel_layer_thickness
                    cur_pixel_height == one_pixel_height_size * adjusted_height
                    cur_pixel_height_adjust ==
                        (cur_pixel_height \div 2) + (adjusted_before * one_pixel_height_size)
                    cube_width == pixel_width * k
                    center == Vector3((x * pixel_width) + (cube_width \div 2),
                                      y * pixel_width, cur_pixel_height_adjust)
                IN  IF layer_height = 0 \/ adjusted_height = 0 THEN <<>>
                    ELSE cube(cube_width, pixel_width, cur_pixel_height, center)
        IN  Concat([i \in 1..Len(lays) |-> one(i - 1)])

RECURSIVE scan_row(_, _, _, _, _, _, _, _, _)
\* process_row: the scan of row y for one hex code, from column x on
scan_row(img, pal, hex_code, cfg, y, x, has_transparency, layer_offset, layer_max) ==
    IF ~(x < dimensions(img)[1]) THEN <<>>
    ELSE IF is_pixel_transparent(get_pixel(img, x, y))
    THEN scan_row(img, pal, hex_code, cfg, y, x + 1, has_transparency, layer_offset, layer_max)
    ELSE IF has_transparency /\ has_transparent_neighbor(img, x, y)
    THEN scan_row(img, pal, hex_code, cfg, y, x + 1, has_transparency, layer_offset, layer_max)
    ELSE LET pixel == get_pixel(img, x, y)
             pixel_rgb == <<pixel[1], pixel[2], pixel[3]>>
             k == run_length(img, x, y, 1, has_transparency)
         IN  run_cubes(pal, hex_code, cfg, x, y, k, pixel_rgb, layer_offset, layer_max)
             \o scan_row(img, pal, hex_code, cfg, y, x + k, has_transparency,
                         layer_offset, layer_max)

\* process_row: the hex codes in order, each scanning the row from the left
process_row(img, pal, hex_codes, cfg, y, has_transparency, layer_offset, layer_max) ==
    Concat([h \in 1..Len(hex_codes) |->
                scan_row(img, pal, hex_codes[h], cfg, y, 0, has_transparency,
                         layer_offset, layer_max)])

\* generate_color_layer: the row meshes merged in row order
generate_color_layer(img, pal, hex_codes, cfg, layer_offset, layer_max) ==
    LET height == dimensions(img)[2]
        has_transparency == has_transparent_pixel(img)
    IN  Concat([r \in 1..height |->
                    process_row(img, pal, hex_codes, cfg, r - 1, has_transparency,
                                layer_offset, layer_max)])

\* a palette file with white and a red whose one-unit layer is lighter, and its loading
LayerPaletteFile ==
    (WHITE :> Entry("White", TRUE, Layers12(HslDef(0, 0, 100), HslDef(0, 0, 100))))
    @@ (RED :> Entry("Red", TRUE, Layers12(HslDef(0, 100, 75), HslDef(0, 100, 50))))

\* the palette loaded from it: light red is white x1 under red x1, red is red x2
LayerPalette ==
    load(LayerPaletteFile,
         [nb_layers |-> 2, creation_method |-> "Additive", color_number |-> 2],
         <<WHITE, RED>>, (WHITE :> <<Key1, Key2>>) @@ (RED :> <<Key1, Key2>>)).palette

\* pixels of a colour grid: opaque red, opaque light red, and a transparent
\* pixel that carries the RGB of the opaque red
LayerPixelChoices == { <<255, 0, 0, 255>>, <<255, 128, 128, 255>>, <<255, 0, 0, 0>> }

\* every width x height grid with at most MaxLayerPixels pixels
LayerImages ==
    UNION { [1..d[2] -> [1..d[1] -> LayerPixelChoices]] :
              d \in { e \in (1..MaxLayerPixels) \X (1..MaxLayerPixels) :
                        e[1] * e[2] <= MaxLayerPixels } }

\* the slot lists and windows handed over: one filament or both, no window
\* (the -1 of generate_color_layers) or the window [1, 2)
LayerArgs ==
    [hex_codes : {<<RED>>, <<WHITE>>, <<RED, WHITE>>},
     window : {<<-1, -1>>, <<1, 1>>}]

InitColorLayer ==
    /\ pc = "layer_start"
    /\ image \in LayerImages
    /\ palette = LayerPalette
    /\ layer_args \in LayerArgs
    /\ lithophane_config = DefaultConfig
    /\ mesh = <<>>
    /\ palette_data = <<>>
    /\ config = <<>>
    /\ iter_order = <<>>
    /\ key_order = <<>>
    /\ load_status = "none"
    /\ palette_colors = <<>>
    /\ distance_method = "none"
    /\ quantized = <<>>
    /\ quantized_image = <<>>
    /\ color_image = <<>>
    /\ cube_args = <<>>
    /\ source_dimensions = <<>>
    /\ generated_layers = <<>>
    /\ GeneratorIdle
    /\ ClipIdle
    /\ ExportIdle
    /\ CombiIdle
    /\ RowIdle

\* one call of generate_color_layer
GenerateColorLayer ==
    /\ pc = "layer_start"
    /\ mesh' = generate_color_layer(image, palette, layer_args.hex_codes, lithophane_config,
                                    layer_args.window[1], layer_args.window[2])
    /\ pc' = "layer_done"
    /\ UNCHANGED <<layer_args, cube_args>>
    /\ UNCHANGED loaderVars
    /\ UNCHANGED generatorVars
    /\ UNCHANGED imageVars
    /\ UNCHANGED clipVars
    /\ UNCHANGED generateVars
    /\ UNCHANGED exportVars
    /\ UNCHANGED combiVars
    /\ UNCHANGED rowVars

NextColorLayer == GenerateColorLayer

SpecColorLayer == InitColorLayer /\ [][NextColorLayer]_vars

\* the prisms of a mesh built from cubes: its triangles in groups of 12
Prisms(m) == { SubSeq(m, 12 * (i - 1) + 1, 12 * i) : i \in 1..(Len(m) \div 12) }

\* the coordinates of a prism's vertices along one axis
Coords(prism, axis) == { prism[i][v][axis] : i \in 1..Len(prism), v \in 1..3 }

SetMin(S) == CHOOSE a \in S : \A b \in S : a <= b
SetMax(S) == CHOOSE a \in S : \A b \in S : b <= a

\* the prism lies over the whole footprint of pixel (x, y) of the grid
Covers(prism, x, y) ==
    LET w == lithophane_config.color_pixel_width
    IN  /\ SetMin(Coords(prism, 1)) <= x * w
        /\ (x + 1) * w <= SetMax(Coords(prism, 1))
        /\ SetMin(Coords(prism, 2)) = y * w - w \div 2
        /\ SetMax(Coords(prism, 2)) = y * w + w \div 2

\* pixel (x, y) is transparent
TransparentAt(x, y) == image[y + 1][x + 1][4] < 255

\* another pixel of the grid at most one step away in each direction is transparent
NearTransparent(x, y) ==
    \E ny \in 0..(Len(image) - 1) : \E nx \in 0..(Len(image[1]) - 1) :
        /\ <<nx, ny>> # <<x, y>>
        /\ Abs(nx - x) <= 1
        /\ Abs(ny - y) <= 1
        /\ TransparentAt(nx, ny)

\* the number of layer units of hex_code that the window leaves of the combi of pixel (x, y)
VisibleUnits(x, y, hex_code) ==
    LET combi == palette.quantized_colors[<<image[y + 1][x + 1][1], image[y + 1][x + 1][2],
                                            image[y + 1][x + 1][3]>>]
        o == layer_args.window[1]
        m == layer_args.window[2]
        unit(i, u) == combi[i].hex_code = hex_code
                      /\ u <= combi[i].layer
                      /\ (o # -1 => LET pos == total_layers(SubSeq(combi, 1, i - 1)) + u - 1
                                    IN  o <= pos /\ pos < o + m)
    IN  Cardinality({ e \in (1..Len(combi)) \X (1..palette.layer_count) : unit(e[1], e[2]) })

\* C16: no prism of the mesh covers a transparent pixel nor, in a grid with a
\* transparent pixel, a pixel with a transparent pixel among its 8 neighbours,
\* wherever in a merged run the pixel lies; in a fully opaque grid every pixel
\* is covered by a prism of every filament that its combi shows in the window.
C16_NoPrismNearTransparency ==
    pc = "layer_done" =>
        \A y \in 0..(Len(image) - 1) : \A x \in 0..(Len(image[1]) - 1) :
            /\ (TransparentAt(x, y) \/ NearTransparent(x, y))
                    => \A p \in Prisms(mesh) : ~Covers(p, x, y)
            /\ (~\E ty \in 0..(Len(image) - 1) : \E tx \in 0..(Len(image[1]) - 1) :
                        TransparentAt(tx, ty))
                    => \A h \in 1..Len(layer_args.hex_codes) :
                           VisibleUnits(x, y, layer_args.hex_codes[h]) > 0
                               => \E p \in Prisms(mesh) : Covers(p, x, y)

\* a run stops before a pixel of the same RGB that has a transparent neighbour:
\* the prism covers the run's first pixel and not the next one
C16_Witness ==
    /\ pc = "layer_done"
    /\ \E y \in 0..(Len(image) - 1) : \E x \in 0..(Len(image[1]) - 2) :
        /\ image[y + 1][x + 1] = image[y + 1][x + 2]
        /\ ~TransparentAt(x, y)
        /\ ~NearTransparent(x, y)
        /\ NearTransparent(x + 1, y)
        /\ \E p \in Prisms(mesh) : Covers(p, x, y)
        /\ \A p \in Prisms(mesh) : ~Covers(p, x + 1, y)

\* ------------------------------------------------------------------ Mesh::cube (geometry.rs)

\* largest half width, half depth and half height of a box explored, in 1/20 mm
MaxHalfSize == 3

\* Vector3::length, exact on the vectors whose length is an integer (the
\* cross products of a box's edges are parallel to an axis)
length(v) == CHOOSE n \in 0..(Abs(v[1]) + Abs(v[2]) + Abs(v[3])) : n * n = dot(v, v)

\* Vector3::normalize: the vector scaled by 1 / length, the zero vector unchanged
normalize(v) ==
    LET len == length(v)
    IN  IF len > 0 THEN <<v[1] \div len, v[2] \div len, v[3] \div len>> ELSE v

\* Triangle::normal
normal(t) ==
    LET edge1 == vsub(t[2], t[1])
        edge2 == vsub(t[3], t[1])
    IN  normalize(cross(edge1, edge2))

\* the boxes explored: even positive sizes, centres on and off the origin
CubeArgs ==
    [width : { 2 * n : n \in 1..MaxHalfSize },
     depth : { 2 * n : n \in 1..MaxHalfSize },
     height : { 2 * n : n \in 1..MaxHalfSize },
     center : { Vector3(x, y, z) : x \in {0, 8}, y \in {0, -16}, z \in {0, 1} }]

InitCube ==
    /\ pc = "cube_start"
    /\ cube_args \in CubeArgs
    /\ layer_args = <<>>
    /\ mesh = <<>>
    /\ LoaderIdle
    /\ GeneratorIdle
    /\ ImageIdle
    /\ ClipIdle
    /\ GenerateIdle
    /\ ExportIdle
    /\ CombiIdle
    /\ RowIdle

\* one call of Mesh::cube
MeshCube ==
    /\ pc = "cube_start"
    /\ mesh' = cube(cube_args.width, cube_args.depth, cube_args.height, cube_args.center)
    /\ pc' = "cube_done"
    /\ UNCHANGED <<layer_args, cube_args>>
    /\ UNCHANGED loaderVars
    /\ UNCHANGED generatorVars
    /\ UNCHANGED imageVars
    /\ UNCHANGED clipVars
    /\ UNCHANGED generateVars
    /\ UNCHANGED exportVars
    /\ UNCHANGED combiVars
    /\ UNCHANGED rowVars

NextCube == MeshCube

SpecCube == InitCube /\ [][NextCube]_vars

\* the triangles of the mesh whose three vertices lie in the plane axis = value
InPlane(axis, value) ==
    { i \in 1..Len(mesh) : \A v \in 1..3 : mesh[i][v][axis] = value }

\* three times the vector from the box centre to the centroid of triangle t
FromCentre(t) ==
    vsub(vadd(vadd(t[1], t[2]), t[3]),
         <<3 * cube_args.center[1], 3 * cube_args.center[2], 3 * cube_args.center[3]>>)

\* the six faces of the box: axis and coordinate of the plane
Faces ==
    LET c == cube_args.center
    IN  { <<1, c[1] - cube_args.width \div 2>>, <<1, c[1] + cube_args.width \div 2>>,
          <<2, c[2] - cube_args.depth \div 2>>, <<2, c[2] + cube_args.depth \div 2>>,
          <<3, c[3] - cube_args.height \div 2>>, <<3, c[3] + cube_args.height \div 2>> }

\* C19: Mesh::cube returns 12 triangles, two in each face of the box with the
\* given dimensions and centre, and the normal of every triangle points away
\* from the centre of the box.
C19_CubeOutwardNormals ==
    pc = "cube_done" =>
        /\ Len(mesh) = 12
        /\ \A f \in Faces : Cardinality(InPlane(f[1], f[2])) = 2
        /\ \A i \in 1..Len(mesh) : dot(normal(mesh[i]), FromCentre(mesh[i])) > 0

\* ------------------------------------------------------------------ generate_texture_layer (texture_layer.rs)

\* largest number of pixels (width * height) of a texture image with free pixels
MaxTexturePixels == 9
\* largest side of a uniform texture image
MaxUniformSide == 8

\* Rgb::to_cmyk: the K component, in 255ths
to_cmyk_k(rgb) == 255 - Max2(Max2(rgb[1], rgb[2]), rgb[3])

\* get_pixel_height: k * (max - min) + min; the grey levels explored (255, 119, 0)
\* make k * (max - min) a whole number of 1/20 mm for the default thicknesses
get_pixel_height(img, x, y, min_thickness, max_thickness) ==
    LET pixel == get_pixel(img, x, y)
        k == to_cmyk_k(<<pixel[1], pixel[2], pixel[3]>>)
    IN  (k * (max_thickness - min_thickness)) \div 255 + min_thickness

\* add_left_edge
add_left_edge(i, j, j1, h00, h01) ==
    << Triangle(Vector3(i, j, h00), Vector3(i, j1, h01), Vector3(i, j1, 0)),
       Triangle(Vector3(i, j, h00), Vector3(i, j, 0), Vector3(i, j1, 0)) >>

\* add_top_edge
add_top_edge(i, i1, j, h00, h10) ==
    << Triangle(Vector3(i, j, h00), Vector3(i1, j, h10), Vector3(i1, j, 0)),
       Triangle(Vector3(i, j, h00), Vector3(i, j, 0), Vector3(i1, j, 0)) >>

\* add_right_edge
add_right_edge(i1, j, j1, h10, h11) ==
    << Triangle(Vector3(i1, j, h10), Vector3(i1, j1, h11), Vector3(i1, j1, 0)),
       Triangle(Vector3(i1, j, h10), Vector3(i1, j, 0), Vector3(i1, j1, 0)) >>

\* add_bottom_edge
add_bottom_edge(i, i1, j1, h01, h11) ==
    << Triangle(Vector3(i, j1, h01), Vector3(i1, j1, h11), Vector3(i1, j1, 0)),
       Triangle(Vector3(i, j1, h01), Vector3(i, j1, 0), Vector3(i1, j1, 0)) >>

\* process_texture_row with the four border tests chained, one edge per quad at most
process_texture_row_one_edge(img, y, width, height, cfg) ==
    LET pixel_width == cfg.texture_pixel_width
        lo == cfg.texture_min_thickness
        hi == cfg.texture_max_thickness
        quad(x) ==
            LET i == x * pixel_width
                j == y * pixel_width
                i1 == (x + 1) * pixel_width
                j1 == (y + 1) * pixel_width
                h00 == get_pixel_height(img, x, y, lo, hi)
                h10 == get_pixel_height(img, x + 1, y, lo, hi)
                h01 == get_pixel_height(img, x, y + 1, lo, hi)
                h11 == get_pixel_height(img, x + 1, y + 1, lo, hi)
            IN  << Triangle(Vector3(i, j, h00), Vector3(i, j1, h01), Vector3(i1, j, h10)),
                   Triangle(Vector3(i1, j1, h11), Vector3(i, j1, h01), Vector3(i1, j, h10)) >>
                \o (IF x = 0 THEN add_left_edge(i, j, j1, h00, h01)
                    ELSE IF y = 0 THEN add_top_edge(i, i1, j, h00, h10)
                    ELSE IF x = width - 2 THEN add_right_edge(i1, j, j1, h10, h11)
                    ELSE IF y = height - 2 THEN add_bottom_edge(i, i1, j1, h01, h11)
                    ELSE <<>>)
    IN  Concat([q \in 1..(width - 1) |-> quad(q - 1)])

\* process_texture_row: the quads of row y from left to right, each with its
\* two surface triangles and then the walls of the borders it lies on
process_texture_row(img, y, width, height, cfg) ==
    LET pixel_width == cfg.texture_pixel_width
        min_thickness == cfg.texture_min_thickness
        max_thickness == cfg.texture_max_thickness
        quad(x) ==
            LET i == x * pixel_width
                j == y * pixel_width
                i1 == (x + 1) * pixel_width
                j1 == (y + 1) * pixel_width
                h00 == get_pixel_height(img, x, y, min_thickness, max_thickness)
                h10 == get_pixel_height(img, x + 1, y, min_thickness, max_thickness)
                h01 == get_pixel_height(img, x, y + 1, min_thickness, max_thickness)
                h11 == get_pixel_height(img, x + 1, y + 1, min_thickness, max_thickness)
                t1 == Triangle(Vector3(i, j, h00), Vector3(i, j1, h01), Vector3(i1, j, h10))
                t2 == Triangle(Vector3(i1, j1, h11), Vector3(i, j1, h01), Vector3(i1, j, h10))
            IN  <<t1, t2>>
                \o (IF x = 0 THEN add_left_edge(i, j, j1, h00, h01) ELSE <<>>)
                \o (IF y = 0 THEN add_top_edge(i, i1, j, h00, h10) ELSE <<>>)
                \o (IF x = width - 2 THEN add_right_edge(i1, j, j1, h10, h11) ELSE <<>>)
                \o (IF y = height - 2 THEN add_bottom_edge(i, i1, j1, h01, h11) ELSE <<>>)
    IN  Concat([q \in 1..(width - 1) |-> quad(q - 1)])

\* generate_texture_layer: the meshes of rows 0 .. height - 2 merged in row order
generate_texture_layer(img, cfg) ==
    LET width == dimensions(img)[1]
        height == dimensions(img)[2]
    IN  Concat([r \in 1..(height - 1) |-> process_texture_row(img, r - 1, width, height, cfg)])

\* pixels of a grayscale image: white and a dark grey
TexturePixelChoices == { <<255, 255, 255, 255>>, <<119, 119, 119, 255>> }

\* every image of at most MaxTexturePixels pixels, and the uniform images of
\* sides up to MaxUniformSide
TextureImages ==
    UNION { [1..d[2] -> [1..d[1] -> TexturePixelChoices]] :
              d \in { e \in (1..MaxTexturePixels) \X (1..MaxTexturePixels) :
                        e[1] * e[2] <= MaxTexturePixels } }
    \cup { [y \in 1..h |-> [x \in 1..w |-> p]] :
              w \in 1..MaxUniformSide, h \in 1..MaxUniformSide, p \in TexturePixelChoices }

InitTexture ==
    /\ pc = "texture_start"
    /\ image \in TextureImages
    /\ lithophane_config = DefaultConfig
    /\ mesh = <<>>
    /\ palette_colors = <<>>
    /\ distance_method = "none"
    /\ quantized = <<>>
    /\ quantized_image = <<>>
    /\ color_image = <<>>
    /\ layer_args = <<>>
    /\ cube_args = <<>>
    /\ source_dimensions = <<>>
    /\ generated_layers = <<>>
    /\ LoaderIdle
    /\ GeneratorIdle
    /\ ClipIdle
    /\ ExportIdle
    /\ CombiIdle
    /\ RowIdle

\* one call of generate_texture_layer
GenerateTextureLayer ==
    /\ pc = "texture_start"
    /\ mesh' = generate_texture_layer(image, lithophane_config)
    /\ pc' = "texture_done"
    /\ UNCHANGED <<layer_args, cube_args>>
    /\ UNCHANGED loaderVars
    /\ UNCHANGED generatorVars
    /\ UNCHANGED imageVars
    /\ UNCHANGED clipVars
    /\ UNCHANGED generateVars
    /\ UNCHANGED exportVars
    /\ UNCHANGED combiVars
    /\ UNCHANGED rowVars

NextTexture == GenerateTextureLayer

SpecTexture == InitTexture /\ [][NextTexture]_vars

\* the triangles of the mesh that reach down to z = 0, and the others
WallTriangles == { i \in 1..Len(mesh) : \E v \in 1..3 : mesh[i][v][3] = 0 }
TopTriangles == (1..Len(mesh)) \ WallTriangles

\* triangle i stands in the vertical plane axis = value
Upright(i, axis, value) == \A v \in 1..3 : mesh[i][v][axis] = value

\* C20: for a W x H image with W >= 2 and H >= 2 the texture mesh has
\* 2 (W-1)(H-1) surface triangles and 4 (W-1) + 4 (H-1) wall triangles, and
\* every wall triangle stands on one of the four borders of the image.
C20_TextureTriangleCount ==
    (pc = "texture_done" /\ dimensions(image)[1] >= 2 /\ dimensions(image)[2] >= 2) =>
        LET W == dimensions(image)[1]
            H == dimensions(image)[2]
            w == lithophane_config.texture_pixel_width
        IN  /\ Cardinality(TopTriangles) = 2 * (W - 1) * (H - 1)
            /\ Cardinality(WallTriangles) = 4 * (W - 1) + 4 * (H - 1)
            /\ Len(mesh) = 2 * (W - 1) * (H - 1) + 4 * (W - 1) + 4 * (H - 1)
            /\ \A i \in WallTriangles :
                   \/ Upright(i, 1, 0)
                   \/ Upright(i, 1, (W - 1) * w)
                   \/ Upright(i, 2, 0)
                   \/ Upright(i, 2, (H - 1) * w)

\* a uniform 8 x 8 image gives 154 triangles
C20_Witness ==
    /\ pc = "texture_done"
    /\ dimensions(image) = <<8, 8>>
    /\ Len(mesh) = 154

\* ------------------------------------------------------------------ LithophaneGenerator::generate (lithophane/generator.rs)

\* largest target width and height explored, in colour pixels
MaxDestPixels == 2
\* largest width and height of a source image explored
MaxSourceSide == 2

\* LithophaneConfig::validate: TRUE for Ok(())
validate(cfg) ==
    /\ ~(cfg.color_pixel_width <= 0)
    /\ ~(cfg.texture_pixel_width <= 0)
    /\ ~(cfg.color_pixel_layer_thickness <= 0)
    /\ ~(cfg.color_pixel_layer_number = 0)
    /\ ~(cfg.texture_min_thickness <= 0)
    /\ ~(cfg.texture_max_thickness <= cfg.texture_min_thickness)
    /\ ~(cfg.plate_thickness < 0)
    /\ ~(~cfg.color_layer /\ ~cfg.texture_layer)
    /\ ~(cfg.curve < 0 \/ cfg.curve > 360)

\* resize_image: (nb_pixel_width, nb_pixel_height), the casts to u32 rounding down
resize_dimensions(src, width_mm, height_mm, pixel_mm) ==
    LET src_width == src[1]
        src_height == src[2]
    IN  IF width_mm # 0 /\ height_mm = 0
        THEN <<width_mm \div pixel_mm, (src_height * width_mm) \div (src_width * pixel_mm)>>
        ELSE IF width_mm = 0 /\ height_mm # 0
        THEN <<(src_width * height_mm) \div (src_height * pixel_mm), height_mm \div pixel_mm>>
        ELSE <<width_mm \div pixel_mm, height_mm \div pixel_mm>>

\* resize_image: Err(ImageProcess) when a calculated dimension is zero
resize_fails(dims) == dims[1] = 0 \/ dims[2] = 0

\* convert_to_grayscale; the luminance sum is exact in f64 on the greys explored
convert_to_grayscale(img) ==
    [y \in 1..Len(img) |->
        [x \in 1..Len(img[y]) |->
            IF is_pixel_transparent(img[y][x]) THEN <<0, 0, 0, 0>>
            ELSE LET luminance == (2126 * img[y][x][1] + 7152 * img[y][x][2]
                                   + 722 * img[y][x][3]) \div 10000
                 IN  <<luminance, luminance, luminance, 255>>]]

\* generate_support_plate
generate_support_plate(img, cfg) ==
    LET plate_width == dimensions(img)[1] * cfg.color_pixel_width
        plate_depth == dimensions(img)[2] * cfg.color_pixel_width
        plate_height == cfg.plate_thickness
        center == Vector3(plate_width \div 2, plate_depth \div 2, -(plate_height \div 2))
    IN  cube(plate_width, plate_depth, plate_height, center)

\* a Mesh in the list generate returns: its triangles, and the wrap applied to
\* them; the rotation of the vertices, which takes sines and cosines, is kept
\* as the pair (curve_degrees, total_width) that determines it
FlatMesh(triangles) == [triangles |-> triangles, curve |-> None]

\* Mesh::apply_curve
apply_curve(m, curve_degrees, total_width) ==
    IF curve_degrees = 0 \/ total_width <= 0 THEN m
    ELSE [m EXCEPT !.curve = Some(<<curve_degrees, total_width>>)]

\* effective_dimensions
effective_dimensions(cfg, src) ==
    LET w == cfg.dest_width_mm
        h == cfg.dest_height_mm
    IN  IF w > 0 \/ h > 0 THEN <<w, h>>
        ELSE <<src[1] * cfg.color_pixel_width, src[2] * cfg.color_pixel_width>>

\* compute_total_width
compute_total_width(cfg, src) == effective_dimensions(cfg, src)[1]

RECURSIVE join(_, _)
\* [String]::join
join(names, sep) ==
    IF names = <<>> THEN ""
    ELSE IF Len(names) = 1 THEN names[1]
    ELSE names[1] \o sep \o join(Tail(names), sep)

\* generate_color_layers: the name of the mesh of group group_idx (from 0)
layer_name(pal, hex_codes, group_idx) ==
    LET named == SelectSeq(hex_codes, LAMBDA h : h \in DOMAIN pal.hex_codes_map)
        color_names == [i \in 1..Len(named) |-> pal.hex_codes_map[named[i]]]
    IN  IF color_names = <<>> THEN "layer-" \o ToString(group_idx + 1)
        ELSE "layer-" \o join(color_names, "+")

\* generate_color_layers with the slot list walked from its last entry to its first
generate_color_layers_reversed(img, pal, cfg) ==
    LET hex_color_groups == pal.hex_color_group_list
        n == Len(hex_color_groups)
    IN  IF hex_color_groups = <<>> THEN [err |-> TRUE, layers |-> <<>>]
        ELSE [err |-> FALSE,
              layers |-> [g \in 1..n |->
                  <<layer_name(pal, hex_color_groups[n + 1 - g], n - g),
                    FlatMesh(generate_color_layer(img, pal, hex_color_groups[n + 1 - g],
                                                  cfg, -1, -1))>>]]

\* generate_color_layers: [err, layers]
generate_color_layers(img, pal, cfg) ==
    LET hex_color_groups == pal.hex_color_group_list
    IN  IF hex_color_groups = <<>> THEN [err |-> TRUE, layers |-> <<>>]
        ELSE [err |-> FALSE,
              layers |-> [g \in 1..Len(hex_color_groups) |->
                  <<layer_name(pal, hex_color_groups[g], g - 1),
                    FlatMesh(generate_color_layer(img, pal, hex_color_groups[g],
                                                  cfg, -1, -1))>>]]

\* generate once both images are made: the meshes in the order they are pushed,
\* then the curve on each of them; [status, layers, color_image]
assemble_layers(cfg, src, pal, color_img, texture_img) ==
    LET plate == IF cfg.color_layer /\ ~has_transparent_pixel(color_img)
                 THEN << <<"layer-plate", FlatMesh(generate_support_plate(color_img, cfg))>> >>
                 ELSE <<>>
        made == IF cfg.color_layer THEN generate_color_layers(color_img, pal, cfg)
                ELSE [err |-> FALSE, layers |-> <<>>]
        texture == IF cfg.texture_layer
                   THEN << <<"layer-texture",
                             FlatMesh(generate_texture_layer(texture_img, cfg))>> >>
                   ELSE <<>>
        flat == plate \o made.layers \o texture
        total_width == compute_total_width(cfg, src)
        curved == IF cfg.curve > 0
                  THEN [i \in 1..Len(flat) |->
                           <<flat[i][1], apply_curve(flat[i][2], cfg.curve, total_width)>>]
                  ELSE flat
    IN  IF made.err
        THEN [status |-> "InvalidPalette", layers |-> <<>>, color_image |-> <<>>]
        ELSE [status |-> "ok", layers |-> curved,
              color_image |-> IF cfg.color_layer THEN color_img ELSE <<>>]

\* LithophaneGenerator::generate: [status, layers, color_image]; resized is the
\* image that resize_image returns for the source, colors is palette.colors();
\* the colour image and the texture image are made first and handed on as values
generate(cfg, src, resized, pal, colors) ==
    LET eff == effective_dimensions(cfg, src)
        color_dims == resize_dimensions(src, eff[1], eff[2], cfg.color_pixel_width)
        texture_dims == resize_dimensions(src, eff[1], eff[2], cfg.texture_pixel_width)
        pixels == FilterMapRows(extract_pixels(resized))
        quantized_pixels == quantize_image(pixels, colors, cfg.color_distance_method)
    IN  IF cfg.color_layer /\ resize_fails(color_dims)
        THEN [status |-> "ImageProcess", layers |-> <<>>, color_image |-> <<>>]
        ELSE IF cfg.texture_layer /\ resize_fails(texture_dims)
        THEN [status |-> "ImageProcess", layers |-> <<>>, color_image |-> <<>>]
        ELSE CHOOSE r \in { assemble_layers(cfg, src, pal, color_img, texture_img) :
                                color_img \in {flip_vertical(pixels_to_image(quantized_pixels))},
                                texture_img \in {flip_vertical(convert_to_grayscale(resized))} } :
                        TRUE

\* the size of the grid that the colour and the texture pipeline resize to
GridDims(cfg, src) ==
    LET eff == effective_dimensions(cfg, src)
    IN  resize_dimensions(src, eff[1], eff[2], cfg.color_pixel_width)

\* the configs explored: targets of 0 .. MaxDestPixels colour pixels, either
\* pipeline on or off, flat or a quarter cylinder, distances taken in RGB; the
\* texture pixels are as wide as the colour pixels, so that both pipelines
\* resize to the same image
GenerateConfigs ==
    { [DefaultConfig EXCEPT !.dest_width_mm = a * DefaultConfig.color_pixel_width,
                            !.dest_height_mm = b * DefaultConfig.color_pixel_width,
                            !.color_layer = cl, !.texture_layer = tl, !.curve = c,
                            !.texture_pixel_width = DefaultConfig.color_pixel_width,
                            !.color_distance_method = "Rgb"] :
        a \in 0..MaxDestPixels, b \in 0..MaxDestPixels,
        cl \in BOOLEAN, tl \in BOOLEAN, c \in {0, 90} }

\* pixels of a resized image: opaque grey, opaque black, transparent
GeneratePixelChoices == { <<119, 119, 119, 255>>, <<0, 0, 0, 255>>, <<0, 0, 0, 0>> }

\* the images resize_image may return for a grid of the given size; no image
\* when the resize fails
Resamplings(dims) ==
    IF resize_fails(dims) THEN {<<>>}
    ELSE [1..dims[2] -> [1..dims[1] -> GeneratePixelChoices]]

\* a palette as loaded, and a palette that was never loaded
GeneratePalettes == {LayerPalette, PaletteNew(2)}

InitGenerate ==
    /\ pc = "generate_start"
    /\ lithophane_config \in { c \in GenerateConfigs : validate(c) }
    /\ source_dimensions \in (1..MaxSourceSide) \X (1..MaxSourceSide)
    /\ LET d == GridDims(lithophane_config, source_dimensions)
       IN  d[1] * d[2] <= MaxPixels
    /\ palette \in GeneratePalettes
    /\ palette_colors \in Orderings(DOMAIN palette.quantized_colors)
    /\ generated_layers = <<>>
    /\ image = <<>>
    /\ color_image = <<>>
    /\ distance_method = "none"
    /\ quantized = <<>>
    /\ quantized_image = <<>>
    /\ palette_data = <<>>
    /\ config = <<>>
    /\ iter_order = <<>>
    /\ key_order = <<>>
    /\ load_status = "none"
    /\ GeneratorIdle
    /\ ClipIdle
    /\ MeshIdle
    /\ ExportIdle
    /\ CombiIdle
    /\ RowIdle

\* one call of LithophaneGenerator::generate
Generate ==
    /\ pc = "generate_start"
    /\ \E resized \in Resamplings(GridDims(lithophane_config, source_dimensions)) :
          \E r \in {generate(lithophane_config, source_dimensions, resized,
                             palette, palette_colors)} :
              /\ generated_layers' = [status |-> r.status, layers |-> r.layers]
              /\ image' = resized
              /\ color_image' = r.color_image
    /\ pc' = "generate_done"
    /\ UNCHANGED <<palette_data, config, iter_order, key_order, palette, load_status>>
    /\ UNCHANGED <<palette_colors, distance_method, quantized, quantized_image>>
    /\ UNCHANGED <<lithophane_config, source_dimensions>>
    /\ UNCHANGED generatorVars
    /\ UNCHANGED clipVars
    /\ UNCHANGED meshVars
    /\ UNCHANGED exportVars
    /\ UNCHANGED combiVars
    /\ UNCHANGED rowVars

NextGenerate == Generate

SpecGenerate == InitGenerate /\ [][NextGenerate]_vars

GeneratedOk == pc = "generate_done" /\ generated_layers.status = "ok"

\* C17: when curve > 0 and generate succeeds, every returned mesh carries the
\* wrap of that curve with one common total_width, which is positive and is
\* the effective physical width: dest_width_mm when given, the width derived
\* from dest_height_mm and the source's aspect when only the height is given,
\* and image width times color_pixel_width when neither is given.
C17_CurveOnEveryMesh ==
    (GeneratedOk /\ lithophane_config.curve > 0) =>
        \E total_width \in 1..(MaxDestPixels * MaxSourceSide * lithophane_config.color_pixel_width) :
            /\ \A i \in 1..Len(generated_layers.layers) :
                   generated_layers.layers[i][2].curve
                       = Some(<<lithophane_config.curve, total_width>>)
            /\ lithophane_config.dest_width_mm > 0
                   => total_width = lithophane_config.dest_width_mm
            /\ (lithophane_config.dest_width_mm = 0 /\ lithophane_config.dest_height_mm > 0)
                   => total_width * source_dimensions[2]
                          = source_dimensions[1] * lithophane_config.dest_height_mm
            /\ (lithophane_config.dest_width_mm = 0 /\ lithophane_config.dest_height_mm = 0)
                   => total_width = source_dimensions[1] * lithophane_config.color_pixel_width

\* the name of the mesh of entry g of the palette's slot list
SlotName(g) ==
    LET hexes == palette.hex_color_group_list[g]
        names == [i \in 1..Len(hexes) |-> palette.hex_codes_map[hexes[i]]]
    IN  "layer-" \o join(names, "+")

\* C18: generate returns "layer-plate" first, present iff the colour pipeline
\* is enabled and the quantized colour grid has no transparent pixel, then one
\* colour mesh per entry of the palette's slot list in list order, then
\* "layer-texture", present iff the texture pipeline is enabled.
C18_MeshOrder ==
    GeneratedOk =>
        LET names == [i \in 1..Len(generated_layers.layers) |-> generated_layers.layers[i][1]]
            has_plate == lithophane_config.color_layer
                         /\ \A y \in 1..Len(color_image) : \A x \in 1..Len(color_image[y]) :
                                color_image[y][x][4] = 255
            slots == IF lithophane_config.color_layer
                     THEN Len(palette.hex_color_group_list) ELSE 0
            first == IF has_plate THEN 1 ELSE 0
        IN  /\ Len(names) = first + slots + (IF lithophane_config.texture_layer THEN 1 ELSE 0)
            /\ has_plate => names[1] = "layer-plate"
            /\ \A g \in 1..slots :
                   /\ names[first + g] = SlotName(g)
                   /\ generated_layers.layers[first + g][2].triangles
                          = generate_color_layer(color_image, palette,
                                                 palette.hex_color_group_list[g],
                                                 lithophane_config, -1, -1)
            /\ lithophane_config.texture_layer => names[Len(names)] = "layer-texture"
            /\ \A i \in 1..Len(names) :
                   names[i] = "layer-plate" => (i = 1 /\ has_plate)
            /\ \A i \in 1..Len(names) :
                   names[i] = "layer-texture"
                       => (i = Len(names) /\ lithophane_config.texture_layer)

\* plate, the meshes of red and of white with prisms in both, and the texture
C18_Witness ==
    /\ GeneratedOk
    /\ Len(generated_layers.layers) = 4
    /\ generated_layers.layers[1][1] = "layer-plate"
    /\ generated_layers.layers[2][1] = "layer-Red"
    /\ generated_layers.layers[2][2].triangles # <<>>
    /\ generated_layers.layers[3][1] = "layer-White"
    /\ generated_layers.layers[3][2].triangles # <<>>
    /\ generated_layers.layers[4][1] = "layer-texture"

\* ------------------------------------------------------------------ write_stl (stl/mod.rs)

\* most triangles of a mesh written on its own
MaxStlTriangles == 13
\* longest name handed to write_stl, one byte above the header's 80
MaxNameLen == 81

RECURSIVE Pow2(_)
Pow2(n) == IF n = 0 THEN 1 ELSE 2 * Pow2(n - 1)

\* the binary exponent of a / 20 for a > 0: 2^e <= a / 20 < 2^(e + 1)
f32_exponent(a) ==
    CHOOSE e \in -5..10 :
        IF e >= 0 THEN 20 * Pow2(e) <= a /\ a < 40 * Pow2(e)
        ELSE 20 <= a * Pow2(-e) /\ a * Pow2(-e) < 40

\* (x as f32).to_le_bytes() of the length a / 20 mm: sign bit, biased exponent
\* and the 24-bit significand rounded to nearest, ties to even; negative_zero
\* tells the sign of a zero
f32_to_le_bytes(a, negative_zero) ==
    IF a = 0 THEN <<0, 0, 0, IF negative_zero THEN 128 ELSE 0>>
    ELSE LET mag == Abs(a)
             e0 == f32_exponent(mag)
             scaled == mag * Pow2(23 - e0)
             q == scaled \div 20
             r == scaled % 20
             m0 == IF 2 * r > 20 \/ (2 * r = 20 /\ q % 2 = 1) THEN q + 1 ELSE q
             carry == m0 = Pow2(24)
             m == IF carry THEN Pow2(23) ELSE m0
             biased == (IF carry THEN e0 + 1 ELSE e0) + 127
         IN  << m % 256,
                (m \div 256) % 256,
                ((m \div 65536) % 128) + 128 * (biased % 2),
                (IF a < 0 THEN 128 ELSE 0) + biased \div 2 >>

\* u32::to_le_bytes
u32_to_le_bytes(n) ==
    << n % 256, (n \div 256) % 256, (n \div 65536) % 256, (n \div 16777216) % 256 >>

\* the f64 product x * y is -0.0: one factor is zero, the other negative (the
\* components of an edge are differences of coordinates, never -0.0)
product_negative_zero(x, y) == (x = 0 /\ y < 0) \/ (x < 0 /\ y = 0)

\* component axis of Vector3::cross(a, b) is -0.0: it is p - q with p = -0.0
\* and q = +0.0
cross_negative_zero(a, b, axis) ==
    LET j == (axis % 3) + 1
        k == ((axis + 1) % 3) + 1
    IN  /\ product_negative_zero(a[j], b[k])
        /\ a[k] * b[j] = 0
        /\ ~product_negative_zero(a[k], b[j])

\* the components of Triangle::normal that are -0.0; dividing by the length
\* keeps the sign of a zero
normal_negative_zero(t) ==
    [axis \in 1..3 |-> cross_negative_zero(vsub(t[2], t[1]), vsub(t[3], t[1]), axis)]

\* write_f32_vec3: 12 bytes; vec in 1/20 mm, negative_zero the signs of its zeros
write_f32_vec3(vec, negative_zero) ==
    f32_to_le_bytes(vec[1], negative_zero[1])
    \o f32_to_le_bytes(vec[2], negative_zero[2])
    \o f32_to_le_bytes(vec[3], negative_zero[3])

\* the unit normal, which has no dimension, on the scale of the lengths
NormalScaled(t) == <<20 * normal(t)[1], 20 * normal(t)[2], 20 * normal(t)[3]>>

\* write_binary_triangle without the closing attribute bytes
write_binary_triangle_no_attribute(triangle) ==
    write_f32_vec3(NormalScaled(triangle), normal_negative_zero(triangle))
    \o write_f32_vec3(triangle[1], <<FALSE, FALSE, FALSE>>)
    \o write_f32_vec3(triangle[2], <<FALSE, FALSE, FALSE>>)
    \o write_f32_vec3(triangle[3], <<FALSE, FALSE, FALSE>>)

\* write_binary_triangle: normal, v0, v1, v2 and the two attribute bytes
write_binary_triangle(triangle) ==
    write_f32_vec3(NormalScaled(triangle), normal_negative_zero(triangle))
    \o write_f32_vec3(triangle[1], <<FALSE, FALSE, FALSE>>)
    \o write_f32_vec3(triangle[2], <<FALSE, FALSE, FALSE>>)
    \o write_f32_vec3(triangle[3], <<FALSE, FALSE, FALSE>>)
    \o <<0, 0>>

\* write_binary_stl: every write_all succeeds on the writers explored (a Vec
\* or the ZIP stream); name is the bytes of the &str; the cast of the length
\* to u32 keeps every length explored
write_binary_stl(triangles, name) ==
    LET copy_len == Min2(Len(name), 80)
        header == [i \in 1..80 |-> IF i <= copy_len THEN name[i] ELSE 0]
        triangle_count == Len(triangles)
    IN  header
        \o u32_to_le_bytes(triangle_count)
        \o Concat([i \in 1..Len(triangles) |-> write_binary_triangle(triangles[i])])

\* write_stl with StlFormat::Binary
write_stl(triangles, name) == write_binary_stl(triangles, name)

\* boxes as the colour layers and the plate build them, in 1/20 mm
StlBoxes ==
    { cube(w, 16, h, c) : w \in {16, 32}, h \in {2, 4},
                          c \in { Vector3(8, 0, 1), Vector3(16, -16, 2), Vector3(0, 0, 0) } }

\* the meshes written: the first triangles of two boxes merged
StlMeshes ==
    { SubSeq(a \o b, 1, t) : a \in StlBoxes, b \in {cube(48, 16, 10, Vector3(24, 32, 5))},
                             t \in 0..MaxStlTriangles }

\* the names written: "", 11 letters, and names that fill or exceed the header
StlNames == { [i \in 1..n |-> 97 + (i % 26)] : n \in {0, 11, 80, MaxNameLen} }

InitStl ==
    /\ pc = "stl_start"
    /\ mesh \in StlMeshes
    /\ stl_name \in StlNames
    /\ stl_output = <<>>
    /\ archive = <<>>
    /\ layer_args = <<>>
    /\ cube_args = <<>>
    /\ LoaderIdle
    /\ GeneratorIdle
    /\ ImageIdle
    /\ ClipIdle
    /\ GenerateIdle
    /\ CombiIdle
    /\ RowIdle

\* one call of write_stl in Binary format on a Vec<u8>
WriteStl ==
    /\ pc = "stl_start"
    /\ stl_output' = write_stl(mesh, stl_name)
    /\ pc' = "stl_done"
    /\ UNCHANGED <<stl_name, archive>>
    /\ UNCHANGED loaderVars
    /\ UNCHANGED generatorVars
    /\ UNCHANGED imageVars
    /\ UNCHANGED lithophaneVars
    /\ UNCHANGED combiVars
    /\ UNCHANGED rowVars

NextStl == WriteStl

SpecStl == InitStl /\ [][NextStl]_vars

\* C21: the binary output for a mesh of T triangles has 84 + 50 T bytes: 80
\* header bytes, the count T as a little-endian u32, then 50 bytes per triangle
\* whose last two are zero.
C21_BinaryLength ==
    pc = "stl_done" =>
        LET T == Len(mesh)
        IN  /\ Len(stl_output) = 84 + 50 * T
            /\ \A i \in 1..Len(stl_output) : stl_output[i] \in 0..255
            /\ stl_output[81] + 256 * stl_output[82] + 65536 * stl_output[83]
                   + 16777216 * stl_output[84] = T
            /\ \A i \in 1..T :
                   stl_output[84 + 50 * i - 1] = 0 /\ stl_output[84 + 50 * i] = 0

\* a mesh of more than one box under a name longer than the header, whose
\* first normal is written as a unit vector along an axis
C21_Witness ==
    /\ pc = "stl_done"
    /\ Len(mesh) > 12
    /\ Len(stl_name) > 80
    /\ Len(stl_output) = 84 + 50 * Len(mesh)
    /\ SubSeq(stl_output, 1, 80) = SubSeq(stl_name, 1, 80)
    /\ SubSeq(stl_output, 85, 96) \in
           { write_f32_vec3(v, <<FALSE, FALSE, FALSE>>) :
                 v \in { <<20, 0, 0>>, <<-20, 0, 0>>, <<0, 20, 0>>,
                         <<0, -20, 0>>, <<0, 0, 20>>, <<0, 0, -20>> } }

\* ------------------------------------------------------------------ export_to_zip (stl/mod.rs)

\* export_to_zip with StlFormat::Binary: [status, entries]. File::create and the
\* writes succeed.  ZipWriter::start_file belongs to the zip crate, whose
\* releases differ on a file name that the archive already holds: some add a
\* second entry under the name, others return an error; rejects_duplicates
\* says which.  An entry's data is the stream write_stl produces for the mesh
\* under the layer's name, kept as these two arguments.
RECURSIVE export_entries(_, _, _)
export_entries(layers, written, rejects_duplicates) ==
    IF layers = <<>> THEN [status |-> "ok", entries |-> written]
    ELSE LET layer_name_ == Head(layers)[1]
             filename == layer_name_ \o ".stl"
         IN  IF rejects_duplicates /\ \E i \in 1..Len(written) : written[i].name = filename
             THEN [status |-> "Zip", entries |-> written]
             ELSE export_entries(Tail(layers),
                                 Append(written, [name |-> filename,
                                                  data |-> <<Head(layers)[2], layer_name_>>]),
                                 rejects_duplicates)

\* export_to_zip
export_to_zip(layers, rejects_duplicates) == export_entries(layers, <<>>, rejects_duplicates)

\* display names given to the filaments in the palette files exported from
ExportNames(hex) ==
    IF hex = WHITE THEN {"White", "texture"}
    ELSE IF hex = RED THEN {"Red", "White", "plate"}
    ELSE {"Green", "Red"}

\* palette files of white, red and possibly green, one layer of one unit each
ExportFiles ==
    LET one(hex, hsl) == { Entry(n, TRUE, Layers1(Key1, hsl)) : n \in ExportNames(hex) }
        two == { (WHITE :> w) @@ (RED :> r) :
                     w \in one(WHITE, HslDef(0, 0, 100)), r \in one(RED, HslDef(0, 100, 50)) }
    IN  two \cup { f @@ (GREEN :> g) : f \in two, g \in one(GREEN, HslDef(120, 100, 50)) }

\* the palettes loaded from them with one or two filaments per group
ExportPalettes ==
    { load(f, [nb_layers |-> 1, creation_method |-> "Additive", color_number |-> n],
           SortStrings(DOMAIN f), [h \in DOMAIN f |-> <<Key1>>]).palette :
        f \in ExportFiles, n \in {2, 3} }

\* flat targets of one colour pixel, either pipeline on or off
ExportConfigs ==
    { c \in GenerateConfigs :
        /\ validate(c)
        /\ c.curve = 0
        /\ c.dest_width_mm = c.color_pixel_width
        /\ c.dest_height_mm = c.color_pixel_width }

InitExport ==
    /\ pc = "generate_start"
    /\ lithophane_config \in ExportConfigs
    /\ source_dimensions = <<1, 1>>
    /\ palette \in ExportPalettes
    /\ palette_colors \in Orderings(DOMAIN palette.quantized_colors)
    /\ generated_layers = <<>>
    /\ image = <<>>
    /\ color_image = <<>>
    /\ distance_method = "none"
    /\ quantized = <<>>
    /\ quantized_image = <<>>
    /\ palette_data = <<>>
    /\ config = <<>>
    /\ iter_order = <<>>
    /\ key_order = <<>>
    /\ load_status = "none"
    /\ GeneratorIdle
    /\ ClipIdle
    /\ MeshIdle
    /\ ExportIdle
    /\ CombiIdle
    /\ RowIdle

\* one call of export_to_zip on the layers generate returned
ExportToZip ==
    /\ pc = "generate_done"
    /\ generated_layers.status = "ok"
    /\ \E rejects_duplicates \in BOOLEAN :
          archive' = export_to_zip(generated_layers.layers, rejects_duplicates)
    /\ pc' = "exported"
    /\ UNCHANGED <<stl_name, stl_output>>
    /\ UNCHANGED loaderVars
    /\ UNCHANGED generatorVars
    /\ UNCHANGED imageVars
    /\ UNCHANGED lithophaneVars
    /\ UNCHANGED combiVars
    /\ UNCHANGED rowVars

NextExport == Generate \/ ExportToZip

SpecExport == InitExport /\ [][NextExport]_vars

\* C22: the archive holds exactly one entry "<name>.stl" per mesh generate
\* returned, in order, and the names of the meshes are pairwise distinct,
\* whatever display names the palette gives its filaments.
C22_OneEntryPerMesh ==
    pc = "exported" =>
        /\ archive.status = "ok"
        /\ Len(archive.entries) = Len(generated_layers.layers)
        /\ \A i \in 1..Len(archive.entries) :
               archive.entries[i].name = generated_layers.layers[i][1] \o ".stl"
        /\ \A i, j \in 1..Len(generated_layers.layers) :
               i # j => generated_layers.layers[i][1] # generated_layers.layers[j][1]

\* ------------------------------------------------------------------ ColorCombi methods on their own (color_combi.rs)

\* the layers a palette file may define: white with one or two units, the
\* two-unit white measured white or light grey, red and green
CombiLayerPool ==
    << ColorLayer(WHITE, 2, <<0, 0, 75>>), ColorLayer(RED, 1, <<0, 100, 50>>),
       ColorLayer(RED, 2, <<0, 100, 50>>), ColorLayer(GREEN, 1, <<120, 100, 50>>),
       ColorLayer(WHITE, 1, <<0, 0, 100>>), ColorLayer(WHITE, 2, <<0, 0, 100>>) >>

\* the sorted layer lists create_color_layers can return over the pool: one
\* layer at most per hex code and layer key
CombiLayerLists ==
    { sort_by_k(SelectSeq(CombiLayerPool, LAMBDA l : l \in S)) :
        S \in { T \in SUBSET { CombiLayerPool[i] : i \in 1..Len(CombiLayerPool) } :
                  \A a, b \in T : (a.hex_code = b.hex_code /\ a.layer = b.layer) => a = b } }

\* the combis of one group, and those of two groups concatenated as
\* compute_colors_by_group does before it factorizes
CombiInputs ==
    UNION { LET first == create_multi_combi(Some(<<RED, WHITE>>), l, n)
                second == create_multi_combi(Some(<<GREEN, WHITE>>), l, n)
            IN  { first[a] : a \in 1..Len(first) }
                \cup { combine_with_combi(first[a], second[b]) :
                          a \in 1..Len(first), b \in 1..Len(second) } :
            l \in CombiLayerLists, n \in 1..MaxNbLayers }

InitCombi ==
    /\ pc = "combi_start"
    /\ combi_self \in CombiInputs
    /\ combi_arg \in 0..MaxColorNumber
    /\ combi_out = <<>>
    /\ LoaderIdle
    /\ GeneratorIdle
    /\ ImageIdle
    /\ LithophaneIdle
    /\ ExportIdle
    /\ RowIdle

\* one call of ColorCombi::factorize; panic when an assert_eq! of combine_with fails
Factorize ==
    /\ pc = "combi_start"
    /\ combi_out' = factorize(combi_self)
    /\ pc' = "factorized"
    /\ UNCHANGED <<combi_self, combi_arg>>
    /\ UNCHANGED loaderVars
    /\ UNCHANGED generatorVars
    /\ UNCHANGED imageVars
    /\ UNCHANGED lithophaneVars
    /\ UNCHANGED exportVars
    /\ UNCHANGED rowVars

\* one call of ColorCombi::optimize_white_layers(nb_color_pool, _)
OptimizeWhiteLayers ==
    /\ pc = "combi_start"
    /\ combi_out' = [panic |-> FALSE, layers |-> optimize_white_layers(combi_self, combi_arg)]
    /\ pc' = "optimized"
    /\ UNCHANGED <<combi_self, combi_arg>>
    /\ UNCHANGED loaderVars
    /\ UNCHANGED generatorVars
    /\ UNCHANGED imageVars
    /\ UNCHANGED lithophaneVars
    /\ UNCHANGED exportVars
    /\ UNCHANGED rowVars

NextCombi == Factorize \/ OptimizeWhiteLayers

SpecCombi == InitCombi /\ [][NextCombi]_vars

\* the positions of c at which a maximal run of equal hex codes starts
RunStarts(c) == { i \in 1..Len(c) : i = 1 \/ c[i].hex_code # c[i - 1].hex_code }

\* the last position of the run of c that starts at i
RunEnd(c, i) ==
    CHOOSE j \in i..Len(c) :
        /\ \A m \in i..j : c[m].hex_code = c[i].hex_code
        /\ (j = Len(c) \/ c[j + 1].hex_code # c[i].hex_code)

\* r is c with every maximal run folded into one layer of the run's summed count
IsFolded(c, r) ==
    /\ Len(r) = Cardinality(RunStarts(c))
    /\ \A n \in 1..Len(r) :
          LET i == CHOOSE s \in RunStarts(c) :
                       Cardinality({ t \in RunStarts(c) : t < s }) = n - 1
              j == RunEnd(c, i)
          IN  /\ r[n].hex_code = c[i].hex_code
              /\ r[n].layer = total_layers(SubSeq(c, i, j))
              /\ (i = j => r[n] = c[i])

\* C23: factorize completes on every combi that cross-group concatenation
\* produces, also when the equal-hex neighbours at the seam are different
\* layer-count entries of one filament; its result is the combi with every
\* maximal run of equal hex codes folded into one layer, has the same total
\* and is left unchanged by a second factorize.
C23_FactorizeFolds ==
    pc = "factorized" =>
        /\ ~combi_out.panic
        /\ IsFolded(combi_self, combi_out.layers)
        /\ total_layers(combi_out.layers) = total_layers(combi_self)
        /\ factorize(combi_out.layers) = [panic |-> FALSE, layers |-> combi_out.layers]

\* ------------------------------------------------------------------ order of the layers in a combi (generator.rs)

\* the (1-based) position of a layer in the list handed to create_multi_combi
InputPosition(layer) == CHOOSE p \in 1..Len(color_layers) : color_layers[p] = layer

\* C24: in every combi create_multi_combi returns, each layer stands strictly
\* later in the input list than the layer before it in the combi; so when the
\* input is sorted by K descending, no layer of a combi is darker than the
\* layer before it.
C24_InputOrderKept ==
    pc = "gen_done" =>
        \A n \in 1..Len(combis) :
            /\ \A i \in 1..(Len(combis[n]) - 1) :
                   InputPosition(combis[n][i]) < InputPosition(combis[n][i + 1])
            /\ (\A p \in 1..(Len(color_layers) - 1) :
                    ~compare_by_k_less(color_layers[p + 1], color_layers[p]))
               => \A i \in 1..(Len(combis[n]) - 1) :
                      ~compare_by_k_less(combis[n][i + 1], combis[n][i])

\* ------------------------------------------------------------------ optimize_white_layers on its own

\* the positions of the white layers of c whose preceding cumulative height is
\* at most q, of its non-white layers, and of its other white layers
BottomWhite(c, q) ==
    { i \in 1..Len(c) : c[i].hex_code = WHITE /\ total_layers(SubSeq(c, 1, i - 1)) <= q }
NonWhite(c) == { i \in 1..Len(c) : c[i].hex_code # WHITE }
TopWhite(c, q) ==
    { i \in 1..Len(c) : c[i].hex_code = WHITE /\ total_layers(SubSeq(c, 1, i - 1)) > q }

RECURSIVE Ascending(_)
\* the positions of S in increasing order
Ascending(S) ==
    IF S = {} THEN <<>>
    ELSE LET m == SetMin(S) IN <<m>> \o Ascending(S \ {m})

\* C25: optimize_white_layers(q) returns the layers of the combi in the order:
\* white layers whose preceding cumulative height is <= q, then the non-white
\* layers, then the other white layers, each bucket in its original order; the
\* result is a permutation of the combi with the same total, and no white
\* layer of it lies between two non-white layers.
C25_WhiteToTheEnds ==
    pc = "optimized" =>
        LET c == combi_self
            r == combi_out.layers
            order == Ascending(BottomWhite(c, combi_arg)) \o Ascending(NonWhite(c))
                     \o Ascending(TopWhite(c, combi_arg))
        IN  /\ Len(r) = Len(c)
            /\ Len(order) = Len(c)
            /\ \A n \in 1..Len(r) : r[n] = c[order[n]]
            /\ \A i, j \in 1..Len(order) : i # j => order[i] # order[j]
            /\ total_layers(r) = total_layers(c)
            /\ \A i, j, k \in 1..Len(r) :
                   (i < j /\ j < k /\ r[i].hex_code # WHITE /\ r[k].hex_code # WHITE)
                       => r[j].hex_code # WHITE

\* a white layer between two filaments of different groups is moved to the top
\* while the white layer at the bottom stays
C25_Witness ==
    /\ pc = "optimized"
    /\ combi_out.layers # combi_self
    /\ BottomWhite(combi_self, combi_arg) # {}
    /\ TopWhite(combi_self, combi_arg) # {}
    /\ \E i, j, k \in 1..Len(combi_self) :
           /\ i < j /\ j < k
           /\ combi_self[i].hex_code # WHITE
           /\ combi_self[j].hex_code = WHITE
           /\ combi_self[k].hex_code # WHITE

\* ------------------------------------------------------------------ runs and prisms of a colour mesh

\* pixel (x, y) of the grid is opaque and outside the moat around transparency
Eligible(x, y) == ~TransparentAt(x, y) /\ ~NearTransparent(x, y)

\* the RGB of pixel (x, y)
RgbAt(x, y) == <<image[y + 1][x + 1][1], image[y + 1][x + 1][2], image[y + 1][x + 1][3]>>

\* a maximal stretch of eligible pixels of one RGB starts at (x, y)
RunStartsAt(x, y) ==
    /\ Eligible(x, y)
    /\ (x = 0 \/ ~Eligible(x - 1, y) \/ RgbAt(x - 1, y) # RgbAt(x, y))

\* the length of the maximal stretch that starts at (x, y)
StretchLength(x, y) ==
    CHOOSE k \in 1..(Len(image[1]) - x) :
        /\ \A j \in 0..(k - 1) : Eligible(x + j, y) /\ RgbAt(x + j, y) = RgbAt(x, y)
        /\ (x + k = Len(image[1]) \/ ~Eligible(x + k, y) \/ RgbAt(x + k, y) # RgbAt(x, y))

\* the units [lo, hi) of the stack that layer i of combi c shows through the
\* window, counted from the window's start
VisibleInterval(c, i) ==
    LET before == total_layers(SubSeq(c, 1, i - 1))
        o == layer_args.window[1]
        m == layer_args.window[2]
    IN  IF o = -1 THEN <<before, before + c[i].layer>>
        ELSE <<Max2(before, o) - o, Max2(Max2(before, o), Min2(before + c[i].layer, o + m)) - o>>

\* the (filament, row, run start, layer of the run's combi) quadruples for
\* which a prism is due: the layer is of the filament and shows in the window
DuePrisms ==
    { d \in (1..Len(layer_args.hex_codes)) \X (0..(Len(image) - 1))
            \X (0..(Len(image[1]) - 1)) \X (1..palette.layer_count) :
        /\ RunStartsAt(d[3], d[2])
        /\ LET c == palette.quantized_colors[RgbAt(d[3], d[2])]
           IN  /\ d[4] <= Len(c)
               /\ c[d[4]].hex_code = layer_args.hex_codes[d[1]]
               /\ VisibleInterval(c, d[4])[1] < VisibleInterval(c, d[4])[2] }

\* the p-th group of 12 triangles of the mesh is the box due for d
IsPrismOf(p, d) ==
    LET prism == SubSeq(mesh, 12 * (p - 1) + 1, 12 * p)
        w == lithophane_config.color_pixel_width
        t == lithophane_config.color_pixel_layer_thickness
        z == VisibleInterval(palette.quantized_colors[RgbAt(d[3], d[2])], d[4])
    IN  /\ Coords(prism, 1) = {d[3] * w, (d[3] + StretchLength(d[3], d[2])) * w}
        /\ Coords(prism, 2) = {d[2] * w - w \div 2, d[2] * w + w \div 2}
        /\ Coords(prism, 3) = {z[1] * t, z[2] * t}

\* C26: the mesh consists of exactly one prism per maximal stretch of eligible
\* pixels of one RGB, filament of the slot and layer of that filament in the
\* RGB's combi that shows in the window; the prism spans the whole stretch, so
\* the mesh has 12 triangles for each such (run, layer) pair and no others.
C26_OnePrismPerRunLayer ==
    pc = "layer_done" =>
        /\ Len(mesh) = 12 * Cardinality(DuePrisms)
        /\ \A d \in DuePrisms :
               Cardinality({ p \in 1..(Len(mesh) \div 12) : IsPrismOf(p, d) }) = 1
        /\ \A p \in 1..(Len(mesh) \div 12) : \E d \in DuePrisms : IsPrismOf(p, d)

\* a row with a run of two pixels and a run of another colour, in a grid
\* with a moat, for a slot of both filaments
C26_Witness ==
    /\ pc = "layer_done"
    /\ Len(layer_args.hex_codes) = 2
    /\ \E y \in 0..(Len(image) - 1) : \E x1, x2 \in 0..(Len(image[1]) - 1) :
           /\ RunStartsAt(x1, y) /\ StretchLength(x1, y) >= 2
           /\ RunStartsAt(x2, y) /\ RgbAt(x2, y) # RgbAt(x1, y)
    /\ \E y \in 0..(Len(image) - 1) : \E x \in 0..(Len(image[1]) - 1) :
           ~TransparentAt(x, y) /\ NearTransparent(x, y)
    /\ Len(mesh) >= 36

\* ------------------------------------------------------------------ the row tasks under any scheduling

MaxRowCount == 3

\* a collect that lists the results in the order in which the tasks finished
collect_as_finished(rm) == [i \in 1..Len(rm.finished) |-> Unwrap(rm.slots[rm.finished[i] + 1])]

\* into_par_iter().map(..).collect(): an indexed collect puts the result of
\* task y in position y of the vector, whenever the task finishes
collect(rm) == [i \in 1..Len(rm.slots) |-> Unwrap(rm.slots[i])]

\* the merge loop: final_mesh.merge_owned(row_mesh) for each row mesh in turn
merge_rows(rm) == Concat(collect(rm))

\* the row tasks not started: one empty slot per task, none finished
RowTasks(n) == [slots |-> [i \in 1..n |-> <<>>], finished |-> <<>>]

\* rows of a colour grid: a run of two, two runs of one, a transparent pixel
\* that puts its neighbours in this row and the adjacent rows into the moat
RowColorRows ==
    { << <<255, 0, 0, 255>>, <<255, 0, 0, 255>> >>,
      << <<255, 0, 0, 255>>, <<255, 128, 128, 255>> >>,
      << <<255, 0, 0, 0>>, <<255, 0, 0, 255>> >> }

\* rows of a grayscale image
RowTextureRows ==
    { << <<255, 255, 255, 255>>, <<119, 119, 119, 255>> >>,
      << <<119, 119, 119, 255>>, <<119, 119, 119, 255>> >>,
      << <<119, 119, 119, 255>>, <<255, 255, 255, 255>> >> }

\* colour grids of 2 .. MaxRowCount rows, texture images of 3 .. MaxRowCount + 1
\* rows: 2 .. MaxRowCount row tasks each
RowColorImages == UNION { [1..h -> RowColorRows] : h \in 2..MaxRowCount }
RowTextureImages == UNION { [1..h -> RowTextureRows] : h \in 3..(MaxRowCount + 1) }

InitRows ==
    /\ \/ /\ pc = "color_rows"
          /\ image \in RowColorImages
          /\ layer_args \in { a \in LayerArgs : Len(a.hex_codes) = 2 }
          /\ row_meshes = RowTasks(dimensions(image)[2])
       \/ /\ pc = "texture_rows"
          /\ image \in RowTextureImages
          /\ layer_args = [hex_codes |-> <<>>, window |-> <<-1, -1>>]
          /\ row_meshes = RowTasks(dimensions(image)[2] - 1)
    /\ palette = LayerPalette
    /\ lithophane_config = DefaultConfig
    /\ mesh = <<>>
    /\ palette_data = <<>>
    /\ config = <<>>
    /\ iter_order = <<>>
    /\ key_order = <<>>
    /\ load_status = "none"
    /\ palette_colors = <<>>
    /\ distance_method = "none"
    /\ quantized = <<>>
    /\ quantized_image = <<>>
    /\ color_image = <<>>
    /\ cube_args = <<>>
    /\ source_dimensions = <<>>
    /\ generated_layers = <<>>
    /\ GeneratorIdle
    /\ ClipIdle
    /\ ExportIdle
    /\ CombiIdle

\* what a step of the row tasks leaves alone: everything but the slots, the
\* merged mesh and the position
RowFrame ==
    /\ UNCHANGED <<layer_args, cube_args>>
    /\ UNCHANGED loaderVars
    /\ UNCHANGED generatorVars
    /\ UNCHANGED imageVars
    /\ UNCHANGED clipVars
    /\ UNCHANGED generateVars
    /\ UNCHANGED exportVars
    /\ UNCHANGED combiVars

\* generate_color_layer: some unfinished row task y runs process_row to its end;
\* it reads the shared borrows and writes its own result only
ProcessRow ==
    /\ pc = "color_rows"
    /\ \E y \in 0..(Len(row_meshes.slots) - 1) :
           /\ ~IsSome(row_meshes.slots[y + 1])
           /\ row_meshes' =
                  [slots |-> [row_meshes.slots EXCEPT ![y + 1] =
                                 <<process_row(image, palette, layer_args.hex_codes,
                                               lithophane_config, y,
                                               has_transparent_pixel(image),
                                               layer_args.window[1], layer_args.window[2])>>],
                   finished |-> Append(row_meshes.finished, y)]
    /\ UNCHANGED <<pc, mesh>>
    /\ RowFrame

\* generate_color_layer: all tasks joined, the row meshes are merged
MergeColorRows ==
    /\ pc = "color_rows"
    /\ \A i \in 1..Len(row_meshes.slots) : IsSome(row_meshes.slots[i])
    /\ mesh' = merge_rows(row_meshes)
    /\ pc' = "color_merged"
    /\ UNCHANGED row_meshes
    /\ RowFrame

\* generate_texture_layer: some unfinished row task y runs process_texture_row
ProcessTextureRow ==
    /\ pc = "texture_rows"
    /\ \E y \in 0..(Len(row_meshes.slots) - 1) :
           /\ ~IsSome(row_meshes.slots[y + 1])
           /\ row_meshes' =
                  [slots |-> [row_meshes.slots EXCEPT ![y + 1] =
                                 <<process_texture_row(image, y, dimensions(image)[1],
                                                       dimensions(image)[2],
                                                       lithophane_config)>>],
                   finished |-> Append(row_meshes.finished, y)]
    /\ UNCHANGED <<pc, mesh>>
    /\ RowFrame

\* generate_texture_layer: all tasks joined, the row meshes are merged
MergeTextureRows ==
    /\ pc = "texture_rows"
    /\ \A i \in 1..Len(row_meshes.slots) : IsSome(row_meshes.slots[i])
    /\ mesh' = merge_rows(row_meshes)
    /\ pc' = "texture_merged"
    /\ UNCHANGED row_meshes
    /\ RowFrame

NextRows == ProcessRow \/ MergeColorRows \/ ProcessTextureRow \/ MergeTextureRows

SpecRows == InitRows /\ [][NextRows]_vars

\* C27: in whatever order the row tasks finish, a finished task holds the mesh
\* of its own row as computed from the inputs alone, and the mesh returned is
\* the merge of the rows in increasing row index: that of the sequential
\* generate_color_layer, respectively generate_texture_layer.
C27_ScheduleIndependent ==
    /\ pc \in {"color_rows", "color_merged"} =>
           \A y \in 0..(Len(row_meshes.slots) - 1) :
               IsSome(row_meshes.slots[y + 1]) =>
                   Unwrap(row_meshes.slots[y + 1])
                       = process_row(image, palette, layer_args.hex_codes, lithophane_config,
                                     y, has_transparent_pixel(image),
                                     layer_args.window[1], layer_args.window[2])
    /\ pc \in {"texture_rows", "texture_merged"} =>
           \A y \in 0..(Len(row_meshes.slots) - 1) :
               IsSome(row_meshes.slots[y + 1]) =>
                   Unwrap(row_meshes.slots[y + 1])
                       = process_texture_row(image, y, dimensions(image)[1],
                                             dimensions(image)[2], lithophane_config)
    /\ pc = "color_merged" =>
           mesh = generate_color_layer(image, palette, layer_args.hex_codes, lithophane_config,
                                       layer_args.window[1], layer_args.window[2])
    /\ pc = "texture_merged" => mesh = generate_texture_layer(image, lithophane_config)

\* three colour rows with pairwise different meshes, finished last row first
C27_Witness ==
    /\ pc = "color_merged"
    /\ row_meshes.finished = <<2, 0, 1>>
    /\ \A i, j \in 1..3 : i # j => row_meshes.slots[i] # row_meshes.slots[j]
    /\ \A i \in 1..3 : Len(Unwrap(row_meshes.slots[i])) >= 12

\* ------------------------------------------------------------------ the column of boxes over a pixel

MaxColumnPixels == 2

\* a palette file with white, red and green, each with a one-unit and a two-unit layer
ColumnPaletteFile ==
    (WHITE :> Entry("White", TRUE, Layers12(HslDef(0, 0, 100), HslDef(0, 0, 100))))
    @@ (RED :> Entry("Red", TRUE, Layers12(HslDef(0, 100, 75), HslDef(0, 100, 50))))
    @@ (GREEN :> Entry("Green", TRUE, Layers12(HslDef(120, 100, 75), HslDef(120, 100, 50))))

\* the loader configs: one or two filaments per group next to white, the full
\* method, one or two units per group
ColumnLoaderConfigs ==
    { [nb_layers |-> n, creation_method |-> "Additive", color_number |-> c] :
        n \in {1, 2}, c \in {2, 3} }
    \cup { [nb_layers |-> 2, creation_method |-> "Full", color_number |-> 0] }

\* the palette that load returns for a loader config
ColumnPalette(cfg) ==
    load(ColumnPaletteFile, cfg, <<GREEN, RED, WHITE>>,
         [h \in DOMAIN ColumnPaletteFile |-> <<Key1, Key2>>]).palette

\* the members of a finite set in some order
RECURSIVE SomeOrdering(_)
SomeOrdering(S) ==
    IF S = {} THEN <<>>
    ELSE LET a == CHOOSE e \in S : TRUE IN <<a>> \o SomeOrdering(S \ {a})

\* flat colour-only targets of a x b pixels with at most MaxColumnPixels pixels
ColumnTargets ==
    { d \in (1..MaxColumnPixels) \X (1..MaxColumnPixels) : d[1] * d[2] <= MaxColumnPixels }

InitColumns ==
    /\ pc = "columns_start"
    /\ config \in ColumnLoaderConfigs
    /\ palette = ColumnPalette(config)
    /\ palette_colors = SomeOrdering(DOMAIN palette.quantized_colors)
    /\ source_dimensions \in ColumnTargets
    /\ lithophane_config =
           [DefaultConfig EXCEPT
               !.dest_width_mm = source_dimensions[1] * DefaultConfig.color_pixel_width,
               !.dest_height_mm = source_dimensions[2] * DefaultConfig.color_pixel_width,
               !.color_layer = TRUE, !.texture_layer = FALSE, !.curve = 0,
               !.color_distance_method = "Rgb"]
    /\ image \in [1..source_dimensions[2] ->
                    [1..source_dimensions[1] ->
                        { <<c[1], c[2], c[3], 255>> : c \in DOMAIN palette.quantized_colors }
                        \cup { <<0, 0, 0, 0>> }]]
    /\ generated_layers = <<>>
    /\ color_image = <<>>
    /\ distance_method = "none"
    /\ quantized = <<>>
    /\ quantized_image = <<>>
    /\ palette_data = <<>>
    /\ iter_order = <<>>
    /\ key_order = <<>>
    /\ load_status = "none"
    /\ GeneratorIdle
    /\ ClipIdle
    /\ MeshIdle
    /\ ExportIdle
    /\ CombiIdle
    /\ RowIdle

\* one call of LithophaneGenerator::generate on an image in the palette's colours
GenerateColumns ==
    /\ pc = "columns_start"
    /\ \E r \in {generate(lithophane_config, source_dimensions, image,
                          palette, palette_colors)} :
           /\ generated_layers' = [status |-> r.status, layers |-> r.layers]
           /\ color_image' = r.color_image
    /\ pc' = "columns_done"
    /\ UNCHANGED <<palette_data, config, iter_order, key_order, palette, load_status>>
    /\ UNCHANGED <<image, palette_colors, distance_method, quantized, quantized_image>>
    /\ UNCHANGED <<lithophane_config, source_dimensions>>
    /\ UNCHANGED generatorVars
    /\ UNCHANGED clipVars
    /\ UNCHANGED meshVars
    /\ UNCHANGED exportVars
    /\ UNCHANGED combiVars
    /\ UNCHANGED rowVars

NextColumns == GenerateColumns

SpecColumns == InitColumns /\ [][NextColumns]_vars

\* pixel (x, y) of the colour grid is processed: opaque and outside the moat
Processed(x, y) ==
    /\ ~is_pixel_transparent(get_pixel(color_image, x, y))
    /\ ~(has_transparent_pixel(color_image) /\ has_transparent_neighbor(color_image, x, y))

\* the combi of the colour of pixel (x, y) of the colour grid
CombiAt(x, y) ==
    LET p == get_pixel(color_image, x, y)
    IN  palette.quantized_colors[<<p[1], p[2], p[3]>>]

\* the positions in the returned list of the meshes of the slots: after the
\* plate when there is one
SlotMeshIndex(g) == g + (IF has_transparent_pixel(color_image) THEN 0 ELSE 1)

\* the boxes over pixel (x, y) in the slot meshes: <<slot, index of the box in
\* the slot's mesh>>
BoxesOver(x, y) ==
    { b \in (1..Len(palette.hex_color_group_list)) \X (1..(12 * MaxColumnPixels)) :
        LET m == generated_layers.layers[SlotMeshIndex(b[1])][2].triangles
        IN  /\ b[2] <= Len(m) \div 12
            /\ Covers(SubSeq(m, 12 * (b[2] - 1) + 1, 12 * b[2]), x, y) }

\* the z-extent <<bottom, top>> of a box, in units of one layer thickness
BoxLevels(b) ==
    LET m == generated_layers.layers[SlotMeshIndex(b[1])][2].triangles
        z == Coords(SubSeq(m, 12 * (b[2] - 1) + 1, 12 * b[2]), 3)
        t == lithophane_config.color_pixel_layer_thickness
    IN  <<SetMin(z) \div t, SetMax(z) \div t>>

\* the z-extent of a box is a whole number of layer thicknesses
BoxOnLevels(b) ==
    LET m == generated_layers.layers[SlotMeshIndex(b[1])][2].triangles
        z == Coords(SubSeq(m, 12 * (b[2] - 1) + 1, 12 * b[2]), 3)
    IN  \A c \in z : c % lithophane_config.color_pixel_layer_thickness = 0

\* C28: for every processed pixel of the colour grid with combi C, the boxes
\* over it in the slot meshes correspond one-to-one to the layers of C with a
\* positive count: layer j has exactly one box, in the mesh of the one slot that
\* holds its hex code, from sum-of-counts-before-j to that plus count_j layer
\* thicknesses; there are no other boxes, no two boxes overlap in z, and they
\* fill the column from 0 to nb_layers x nb_groups layer thicknesses.
C28_ColumnOfBoxes ==
    (pc = "columns_done" /\ generated_layers.status = "ok") =>
        \A y \in 0..(Len(color_image) - 1) : \A x \in 0..(Len(color_image[1]) - 1) :
            Processed(x, y) =>
                LET C == CombiAt(x, y)
                    positive == { j \in 1..Len(C) : C[j].layer > 0 }
                    boxes == BoxesOver(x, y)
                    BoxOfLayer(b, j) ==
                        /\ BoxOnLevels(b)
                        /\ BoxLevels(b) = <<total_layers(SubSeq(C, 1, j - 1)),
                                            total_layers(SubSeq(C, 1, j - 1)) + C[j].layer>>
                IN  /\ \A j \in positive :
                           /\ Cardinality({ g \in 1..Len(palette.hex_color_group_list) :
                                  Contains(palette.hex_color_group_list[g], C[j].hex_code) }) = 1
                           /\ Cardinality({ b \in boxes : BoxOfLayer(b, j) }) = 1
                           /\ \A b \in boxes :
                                  BoxOfLayer(b, j) =>
                                      Contains(palette.hex_color_group_list[b[1]], C[j].hex_code)
                    /\ Cardinality(boxes) = Cardinality(positive)
                    /\ \A b1, b2 \in boxes :
                           b1 # b2 => \/ BoxLevels(b1)[2] <= BoxLevels(b2)[1]
                                      \/ BoxLevels(b2)[2] <= BoxLevels(b1)[1]
                    /\ { u \in 0..(palette.layer_count + 1) :
                             \E b \in boxes : BoxLevels(b)[1] <= u /\ u < BoxLevels(b)[2] }
                           = 0..(config.nb_layers * palette.nb_groups - 1)

\* a processed pixel in a two-group palette whose combi has four layers: the
\* boxes of both groups' filaments in the first slot's mesh, two white boxes
\* in the white slot's mesh
C28_Witness ==
    /\ pc = "columns_done"
    /\ generated_layers.status = "ok"
    /\ palette.nb_groups = 2
    /\ \E y \in 0..(Len(color_image) - 1) : \E x \in 0..(Len(color_image[1]) - 1) :
           /\ Processed(x, y)
           /\ Len(CombiAt(x, y)) = 4
           /\ Cardinality(BoxesOver(x, y)) = 4
           /\ \A g \in 1..2 : Cardinality({ b \in BoxesOver(x, y) : b[1] = g }) = 2

\* ------------------------------------------------------------------ the keys of the RGB -> combi map

\* the combis that the load hands to add_combi, factorized, in insertion order
GeneratedCombis ==
    LET made == create_color_layers(palette_data, config, iter_order, key_order).layers
        nb_groups == NbGroups(Quota, WorkingHexList)
        groups == HexColorGroups(WorkingHexList, Quota, nb_groups)
        lists == [g \in 1..nb_groups |->
                     create_multi_combi(Some(groups[g]), made, config.nb_layers)]
        final == FinalCombiList(lists[1], lists, 2)
    IN  [n \in 1..Len(final) |-> factorize(final[n]).layers]

\* the additive projection of a combi: the per-channel sums of its layers' CMYK
\* clamped to 100 percent, converted to RGB
Projection(c) ==
    LET sum(n) == Min2(SumComponent(c, n), 100)
    IN  from_cmyk(<<sum(1), sum(2), sum(3), sum(4)>>)

\* the position of the last generated combi that projects to k
LastProjecting(gen, k) ==
    SetMax({ n \in 1..Len(gen) : Projection(gen[n]) = k })

LoadAborts == {"panic_divide_by_zero", "panic_index_out_of_bounds", "panic_assertion_failed"}

\* C30: for every well-formed palette file, nb_layers >= 1, creation method and
\* color_number >= 0, load ends by returning a palette or an error value: it
\* never aborts through a division by zero, an out-of-range index or a failed
\* assertion.
C30_LoadReturns ==
    pc = "loaded" => load_status \notin LoadAborts

====
